---- MODULE Spec2Model ----
(***************************************************************************)
(* Ledger state machine of the investment application: the product         *)
(* inventory (src/src/lib/product-inventory-service.ts), the referral      *)
(* bonus engine and the milestone reward engine (ReferralService in        *)
(* src/unnamed/part_001), the product lifecycle (ProductService and        *)
(* InvestmentPlanService in src/unnamed/part_001), and the purchase flow   *)
(* of the dashboard (handleInvest in src/src/components/ui/chatbot.tsx).   *)
(*                                                                         *)
(* Every operation is an async function: it runs as a sequence of store    *)
(* round trips (await points).  One action of the model is one round trip  *)
(* together with the synchronous code up to the next await; operations of  *)
(* different callers interleave at the await points.                       *)
(*                                                                         *)
(* The code runs in the browser (isClientSide() is true) and the documents *)
(* of the users named below exist.  Store calls succeed, except in the     *)
(* specifications SpecReferralFail, SpecMilestoneFail and SpecPurchase,    *)
(* where a bounded number of them fail.                                    *)
(***************************************************************************)
EXTENDS Integers, Sequences, FiniteSets, Bags, TLC

\* The callers (browser sessions) whose operations interleave.
Procs == {"a", "b"}

(***************************************************************************)
(* Product inventory                                                       *)
(***************************************************************************)

ProductTypes == {"special", "premium"}

\* product-inventory-service.ts:43-55
specialInventory ==
  [id \in {"special-1", "special-2", "special-3", "special-4", "special-5",
           "special-6", "special-7", "special-8", "special-9", "special-10",
           "special-11"} |->
     CASE id = "special-1"  -> [purchased |-> 0, total |-> 50, name |-> "Special 1"]
       [] id = "special-2"  -> [purchased |-> 0, total |-> 50, name |-> "Special 2"]
       [] id = "special-3"  -> [purchased |-> 0, total |-> 50, name |-> "Special 3"]
       [] id = "special-4"  -> [purchased |-> 0, total |-> 50, name |-> "Special 4"]
       [] id = "special-5"  -> [purchased |-> 0, total |-> 50, name |-> "Special 5"]
       [] id = "special-6"  -> [purchased |-> 0, total |-> 35, name |-> "Special 6"]
       [] id = "special-7"  -> [purchased |-> 0, total |-> 25, name |-> "Special 7"]
       [] id = "special-8"  -> [purchased |-> 0, total |-> 15, name |-> "Special 8"]
       [] id = "special-9"  -> [purchased |-> 0, total |-> 5, name |-> "Special 9"]
       [] id = "special-10" -> [purchased |-> 0, total |-> 3, name |-> "Special 10"]
       [] id = "special-11" -> [purchased |-> 0, total |-> 1, name |-> "Special 11"]]

\* product-inventory-service.ts:58-69
premiumInventory ==
  [id \in {"premium-1", "premium-2", "premium-3", "premium-4", "premium-5",
           "premium-6", "premium-7", "premium-8", "premium-9", "premium-10"} |->
     CASE id = "premium-1"  -> [purchased |-> 0, total |-> 200, name |-> "Premium 1"]
       [] id = "premium-2"  -> [purchased |-> 0, total |-> 55, name |-> "Premium 2"]
       [] id = "premium-3"  -> [purchased |-> 0, total |-> 55, name |-> "Premium 3"]
       [] id = "premium-4"  -> [purchased |-> 0, total |-> 55, name |-> "Premium 4"]
       [] id = "premium-5"  -> [purchased |-> 0, total |-> 50, name |-> "Premium 5"]
       [] id = "premium-6"  -> [purchased |-> 0, total |-> 45, name |-> "Premium 6"]
       [] id = "premium-7"  -> [purchased |-> 0, total |-> 20, name |-> "Premium 7"]
       [] id = "premium-8"  -> [purchased |-> 0, total |-> 10, name |-> "Premium 8"]
       [] id = "premium-9"  -> [purchased |-> 0, total |-> 2, name |-> "Premium 9"]
       [] id = "premium-10" -> [purchased |-> 0, total |-> 1, name |-> "Premium 10"]]

\* The document written by initializeInventory for a product type.
SeedOf(type) == IF type = "special" THEN specialInventory ELSE premiumInventory

\* Data of a document that does not exist: no keys.
NoData == [id \in {} |-> 0]

\* Product ids the callers pass to increasePurchasedCount: a scarce product
\* of each record and one id that is in no record.  The other products of
\* the seed tables stay in the documents and are never bought.
CallIds == {"special-11", "premium-9", "no-such-product"}

\* The products whose sales are counted.
Tracked == CallIds \cap (DOMAIN specialInventory \cup DOMAIN premiumInventory)

TypeOfId(id) == IF id \in DOMAIN specialInventory THEN "special" ELSE "premium"

VARIABLES
  inventory,   \* product_inventory/special and /premium: [exists, data]
  marker,      \* product_inventory/initialized: "absent", "true" or "false"
  ipc,         \* per caller: position inside the inventory operation
  iop,         \* per caller: the operation called ("none" when idle)
  iid,         \* per caller: productId argument
  itype,       \* per caller: productType argument
  inew,        \* per caller: newPurchased (increase) computed from the read
  ikeys,       \* per caller: Object.keys(inventory) read by restoreInventory
  iret,        \* per caller: result of the last increasePurchasedCount
  sold         \* per product: calls that returned true since the last restore

ivars == <<inventory, marker, ipc, iop, iid, itype, inew, ikeys, iret, sold>>

(***************************************************************************)
(* Users, transactions and the referral bonus engine: state                *)
(***************************************************************************)

\* The users collection: a referral chain u4 -> u3 -> u2 -> u1, so that u4
\* has three ancestor levels, u3 two, u2 one and u1 none.  referredBy is
\* set at registration and never changes (part_001:36).
Users == {"u1", "u2", "u3", "u4"}

NoUser == "none"

ReferredBy(u) ==
  CASE u = "u4" -> "u3"
    [] u = "u3" -> "u2"
    [] u = "u2" -> "u1"
    [] OTHER    -> NoUser

\* Deposit amounts passed to processDepositReferralBonus: one whose level-1
\* bonus rounds to 0, one whose level-3 bonus rounds to 0, and one that pays
\* on every level.
Deposits == {2, 30, 10000}

\* The user whose registration and deposits are processed: the one with
\* three ancestor levels.
Depositors == {"u4"}

\* Calls of processDepositReferralBonus made for one user.
MaxDepositCalls == 2

VARIABLES
  users,          \* users collection: id -> [balance, referralEarnings,
                  \*   totalReferrals, referredBy, status]
  transactions,   \* transactions collection: a bag of documents
  notifications,  \* notifications collection: number of documents per user
  adminNotifications, \* admin_notifications collection: number of documents
  rpc,            \* per caller: position inside the referral operation
  rop,            \* per caller: the operation called
  ruser,          \* per caller: userId / newUserId argument
  ramt,           \* per caller: depositAmount argument
  rlvl,           \* per caller: the level function running (1, 2, 3)
  rhop,           \* per caller: how many users of the chain it has read
  rcur,           \* per caller: id of the user document read last
  rsnap,          \* per caller: the user document read last
  regState,       \* per user: registration bonus "new", "running", "done"
  depCalls,       \* per user: processDepositReferralBonus calls started
  doneAmts,       \* per user: amounts of the calls that have returned
  doneCount,      \* per user: number of calls that have returned
  overlap,        \* some call started while another operation was running
  rref,           \* per caller: user.referredBy read at line 1460
  routcome,       \* per caller: the last call "returned" or has "thrown"
  rfailed,        \* per caller: the store call of this call that failed
  rtx,            \* per caller: transactions added by this call
  failures,       \* store calls that have failed
  edits           \* referredBy fields rewritten

\* The ledger: the collections shared by the engines.
lvars == <<users, transactions, notifications, adminNotifications>>

rvars == <<rpc, rop, ruser, ramt, rlvl, rhop, rcur, rsnap,
           regState, depCalls, doneAmts, doneCount, overlap,
           rref, routcome, rfailed, rtx, failures, edits>>

(***************************************************************************)
(* Milestone reward engine: state                                          *)
(***************************************************************************)

\* part_001:1743-1759
getMilestoneConfig ==
  << [id |-> "VIP1", target |-> 5, reward |-> 1000],
     [id |-> "VIP2", target |-> 15, reward |-> 5000],
     [id |-> "VIP3", target |-> 30, reward |-> 9000],
     [id |-> "VIP4", target |-> 50, reward |-> 20000],
     [id |-> "VIP5", target |-> 70, reward |-> 30000],
     [id |-> "VIP6", target |-> 130, reward |-> 60000],
     [id |-> "VIP7", target |-> 250, reward |-> 100000],
     [id |-> "VIP8", target |-> 300, reward |-> 120000],
     [id |-> "VIP9", target |-> 400, reward |-> 150000],
     [id |-> "VIP10", target |-> 500, reward |-> 200000],
     [id |-> "VIP11", target |-> 900, reward |-> 250000],
     [id |-> "VIP12", target |-> 1200, reward |-> 320000],
     [id |-> "VIP13", target |-> 2000, reward |-> 400000] >>

\* The user who claims milestones.
Claimants == {"u1"}

\* The milestoneTarget arguments passed to claimReferralMilestone: the first
\* three tiers and a number that is no tier.
ClaimTargets == {5, 15, 30, 7}

\* The values getValidReferralCount returns as the user's direct referrals
\* deposit and invest: below the first tier, exactly a tier, between tiers.
ValidCounts == {0, 4, 5, 15, 40}

VARIABLES
  rewards,       \* referral_rewards collection: a bag of documents
  validCount,    \* per user: direct referrals that deposited and invested
  mpc,           \* per caller: position inside claimReferralMilestone
  muser,         \* per caller: userId argument
  mtarget,       \* per caller: milestoneTarget argument
  mvalid,        \* per caller: validReferrals read
  msnap,         \* per caller: the user document read (line 1908)
  mresult,       \* per caller: [success, message] of the last call
  credited,      \* per user and target: saveUser calls that added the reward
  moverlap,      \* some claim started while another claim was running
  mcase,         \* per caller: what the last call was, by the records it read
  mfailures      \* store calls of claims that have failed

mvars == <<rewards, validCount, mpc, muser, mtarget, mvalid, msnap, mresult,
           credited, moverlap, mcase, mfailures>>

(***************************************************************************)
(* Product lifecycle: state                                                *)
(***************************************************************************)

\* The clock counts half days: one day is DayLen ticks (line 1238 divides
\* the elapsed milliseconds by 1000 * 60 * 60 * 24 and takes the floor).
DayLen == 2

\* cycleDays of the purchased products of the model (the catalog has 365, 7
\* and 30 days, lines 1132-1183).
CycleDays == 2

\* The clock stops at the end of the cycle.
MaxClock == CycleDays * DayLen

\* Calls of updateProductStatus and updateProductProgress on their own.
MaxDirectWrites == 1

\* lastPayoutDate of a product that has none (the field is optional).
NoDate == -1

\* The owner of the purchased products.
Owner == "u1"

\* getSpecialPlans, getPremiumPlans and getBasicPlans (lines 1132-1183) as
\* handleInvest stores them (chatbot.tsx:728-760): Special 1, Premium 1 and
\* Basic 2. The clock counts from the purchase.
PurchasedProduct(type) ==
  [userId |-> Owner, planType |-> type,
   price |-> CASE type = "Special" -> 3000
               [] type = "Premium" -> 5000
               [] type = "Basic" -> 5000,
   dailyEarning |-> CASE type = "Special" -> 117
                      [] type = "Premium" -> 995
                      [] type = "Basic" -> 1175,
   totalEarning |-> CASE type = "Special" -> 42705
                      [] type = "Premium" -> 6965
                      [] type = "Basic" -> 35250,
   daysCompleted |-> 0,
   totalDays |-> CycleDays,
   startDate |-> 0,
   endDate |-> CycleDays * DayLen,
   status |-> "Active",
   lastPayoutDate |-> NoDate]

\* getSpecialPlans (lines 1151-1166).  dailyROI is in tenths of a percent:
\* 39 stands for the 3.9 of the source.
getSpecialPlans ==
  << [id |-> "special-1", price |-> 3000, dailyROI |-> 39, cycleDays |-> 365,
      dailyIncome |-> 117, totalReturn |-> 42705],
     [id |-> "special-2", price |-> 5000, dailyROI |-> 39, cycleDays |-> 365,
      dailyIncome |-> 195, totalReturn |-> 71175],
     [id |-> "special-3", price |-> 12000, dailyROI |-> 39, cycleDays |-> 365,
      dailyIncome |-> 468, totalReturn |-> 170820],
     [id |-> "special-4", price |-> 26000, dailyROI |-> 39, cycleDays |-> 365,
      dailyIncome |-> 1014, totalReturn |-> 370110],
     [id |-> "special-5", price |-> 50000, dailyROI |-> 39, cycleDays |-> 365,
      dailyIncome |-> 1950, totalReturn |-> 711750],
     [id |-> "special-6", price |-> 100000, dailyROI |-> 39, cycleDays |-> 365,
      dailyIncome |-> 3900, totalReturn |-> 1423500],
     [id |-> "special-7", price |-> 150000, dailyROI |-> 39, cycleDays |-> 365,
      dailyIncome |-> 5850, totalReturn |-> 2135250],
     [id |-> "special-8", price |-> 200000, dailyROI |-> 39, cycleDays |-> 365,
      dailyIncome |-> 7800, totalReturn |-> 2847000],
     [id |-> "special-9", price |-> 300000, dailyROI |-> 39, cycleDays |-> 365,
      dailyIncome |-> 11700, totalReturn |-> 4270500],
     [id |-> "special-10", price |-> 500000, dailyROI |-> 39, cycleDays |-> 365,
      dailyIncome |-> 19500, totalReturn |-> 7117500],
     [id |-> "special-11", price |-> 1000000, dailyROI |-> 39, cycleDays |-> 365,
      dailyIncome |-> 39000, totalReturn |-> 14235000] >>

\* Document ids of the purchased_products collection, in the order a query
\* returns them.
ProductIds == <<"p1">>

Products == {ProductIds[i] : i \in DOMAIN ProductIds}

\* planType of a purchased product (line 73).
PlanTypes == {"Special", "Premium", "Basic"}

\* An id that has no document yet.
NoProduct ==
  [userId |-> NoUser, planType |-> "none", price |-> 0, dailyEarning |-> 0,
   totalEarning |-> 0, daysCompleted |-> 0, totalDays |-> 0, startDate |-> 0,
   endDate |-> 0, status |-> "none", lastPayoutDate |-> NoDate]

\* Arguments of claimReturns: the owner or another user, and a document id.
ClaimUsers == {"u1", "u2"}

ClaimIds == Products

VARIABLES
  purchased,     \* purchased_products collection: id -> document
  clock,         \* the time new Date() returns, in ticks
  pcall,         \* per caller: position and locals of the running operation
  poverlap,      \* some operation started while another one was running
  finalPaid,     \* per product: final payouts credited, by sweep and by claim
  dailyPaid,     \* per product: daily payouts credited
  directWrites   \* direct calls of updateProductStatus/updateProductProgress

pvars == <<purchased, clock, pcall, poverlap, finalPaid, dailyPaid,
           directWrites>>

(***************************************************************************)
(* Purchase flow (DashboardPage.handleInvest): state                       *)
(***************************************************************************)

\* The user whose dashboard session buys, and the caller that session is.
Buyer == "u1"

Session == "a"

\* The catalog products on the dashboard: a scarce limited product (one
\* unit, product-inventory-service.ts:54) and a Basic product, which has no
\* inventory.
ShopIds == {"special-11", "basic-1"}

\* chatbot.tsx:897: Special and Premium products are limited.
Limited(id) == id \in DOMAIN specialInventory \cup DOMAIN premiumInventory

\* price of getSpecialPlans (part_001:1164) and getBasicPlans (1137).
CatalogPrice(id) == IF id = "special-11" THEN 1000000 ELSE 2500

\* Amounts credited to the buyer by approved deposits.
Funds == {1000000}

\* At most this many deposits are credited to the buyer.
MaxFunds == 1

\* At most this many times the buyer presses Invest.
MaxPurchases == 1

VARIABLES
  userData,      \* React state of the session: the user document last seen
  hcard,         \* per product: availability state of its ProductCard
  hcardload,     \* the product whose card is loading its availability
  invest,        \* position, locals and history of the running handleInvest
  hfailures,     \* store calls of handleInvest that have failed
  hcalls,        \* times Invest was pressed
  hreverts,      \* balance reverts written
  funds,         \* deposits credited
  bought,        \* per product: PurchasedProduct documents of the buyer
  tasks          \* product tasks of the buyer

hvars == <<userData, hcard, hcardload, invest, hfailures, hcalls, hreverts,
           funds, bought, tasks>>

vars == <<ivars, lvars, rvars, mvars, pvars, hvars>>

\* What the operations of one component leave alone.
InventoryFrame == UNCHANGED <<lvars, rvars, mvars, pvars, hvars>>

ReferralFrame == UNCHANGED <<ivars, mvars, pvars, hvars>>

\* A step of a referral operation in which the store answers.
ReferralStep == ReferralFrame /\ UNCHANGED <<rfailed, failures, edits>>

MilestoneFrame ==
  UNCHANGED <<ivars, rvars, pvars, hvars, notifications, adminNotifications>>

\* A step of a claim in which the store answers.
MilestoneStep == MilestoneFrame /\ UNCHANGED mfailures

ProductFrame ==
  UNCHANGED <<ivars, rvars, mvars, hvars, notifications, adminNotifications>>

PurchaseFrame ==
  UNCHANGED <<rvars, mvars, pvars, notifications, adminNotifications>>

InitInventory ==
  /\ inventory = [t \in ProductTypes |-> [exists |-> FALSE, data |-> NoData]]
  /\ marker = "absent"
  /\ ipc = [p \in Procs |-> "idle"]
  /\ iop = [p \in Procs |-> "none"]
  /\ iid = [p \in Procs |-> "none"]
  /\ itype = [p \in Procs |-> "none"]
  /\ inew = [p \in Procs |-> 0]
  /\ ikeys = [p \in Procs |-> {}]
  /\ iret = [p \in Procs |-> "none"]
  /\ sold = [id \in Tracked |-> 0]

\* ---- calls ----

\* A caller invokes initializeInventory() (chatbot.tsx:905, 1160).
Call_initializeInventory(p) ==
  /\ InventoryFrame
  /\ ipc[p] = "idle"
  /\ ipc' = [ipc EXCEPT ![p] = "init_getDoc"]
  /\ iop' = [iop EXCEPT ![p] = "init"]
  /\ iid' = [iid EXCEPT ![p] = "none"]
  /\ itype' = [itype EXCEPT ![p] = "none"]
  /\ iret' = [iret EXCEPT ![p] = "none"]
  /\ UNCHANGED <<inventory, marker, inew, ikeys, sold>>

\* A caller invokes increasePurchasedCount(productId, productType); its
\* first await is initializeInventory (line 143).
Call_increasePurchasedCount(p, id, type) ==
  /\ InventoryFrame
  /\ ipc[p] = "idle"
  /\ ipc' = [ipc EXCEPT ![p] = "init_getDoc"]
  /\ iop' = [iop EXCEPT ![p] = "inc"]
  /\ iid' = [iid EXCEPT ![p] = id]
  /\ itype' = [itype EXCEPT ![p] = type]
  /\ iret' = [iret EXCEPT ![p] = "none"]
  /\ UNCHANGED <<inventory, marker, inew, ikeys, sold>>

\* A caller invokes restoreInventory(productType).
Call_restoreInventory(p, type) ==
  /\ InventoryFrame
  /\ ipc[p] = "idle"
  /\ ipc' = [ipc EXCEPT ![p] = "restore_getDoc"]
  /\ iop' = [iop EXCEPT ![p] = "restore"]
  /\ iid' = [iid EXCEPT ![p] = "none"]
  /\ itype' = [itype EXCEPT ![p] = type]
  /\ iret' = [iret EXCEPT ![p] = "none"]
  /\ UNCHANGED <<inventory, marker, inew, ikeys, sold>>

\* The call returns `result`; iop, iid and itype keep describing it until
\* the caller's next call.
Return(p, result) ==
  /\ ipc' = [ipc EXCEPT ![p] = "idle"]
  /\ inew' = [inew EXCEPT ![p] = 0]
  /\ ikeys' = [ikeys EXCEPT ![p] = {}]
  /\ iret' = [iret EXCEPT ![p] = result]
  /\ UNCHANGED <<iop, iid, itype>>

\* initializeInventory returns to its caller.
InitReturns(p) ==
  IF iop[p] = "inc"
    THEN /\ ipc' = [ipc EXCEPT ![p] = "inc_getDoc"]
         /\ UNCHANGED <<iop, iid, itype, inew, ikeys, iret>>
    ELSE Return(p, "void")

\* ---- initializeInventory (lines 25-88) ----

AlreadyInitialized_never(m) == FALSE

AlreadyInitialized_flag(m) == m = "false"

\* line 35: inventoryDoc.exists() on the marker document.
AlreadyInitialized(m) == m # "absent"

\* lines 34-38: read the marker; return when it exists.
initializeInventory_getDoc(p) ==
  /\ InventoryFrame
  /\ ipc[p] = "init_getDoc"
  /\ IF AlreadyInitialized(marker)
       THEN InitReturns(p)
       ELSE /\ ipc' = [ipc EXCEPT ![p] = "init_setSpecial"]
            /\ UNCHANGED <<iop, iid, itype, inew, ikeys, iret>>
  /\ UNCHANGED <<inventory, marker, sold>>

\* line 73: setDoc(special, specialInventory) replaces the document.
initializeInventory_setSpecial(p) ==
  /\ InventoryFrame
  /\ ipc[p] = "init_setSpecial"
  /\ inventory' = [inventory EXCEPT
                     !["special"] = [exists |-> TRUE, data |-> specialInventory]]
  /\ ipc' = [ipc EXCEPT ![p] = "init_setPremium"]
  /\ UNCHANGED <<marker, iop, iid, itype, inew, ikeys, iret, sold>>

\* line 75: setDoc(premium, premiumInventory) replaces the document.
initializeInventory_setPremium(p) ==
  /\ InventoryFrame
  /\ ipc[p] = "init_setPremium"
  /\ inventory' = [inventory EXCEPT
                     !["premium"] = [exists |-> TRUE, data |-> premiumInventory]]
  /\ ipc' = [ipc EXCEPT ![p] = "init_setMarker"]
  /\ UNCHANGED <<marker, iop, iid, itype, inew, ikeys, iret, sold>>

\* lines 77-80: write the marker, then return.
initializeInventory_setMarker(p) ==
  /\ InventoryFrame
  /\ ipc[p] = "init_setMarker"
  /\ marker' = "true"
  /\ InitReturns(p)
  /\ UNCHANGED <<inventory, sold>>

\* ---- increasePurchasedCount (lines 133-199) ----

SoldOut_strict(item) == item.purchased > item.total

\* line 169: the sold-out test on the data that was read.
SoldOut(item) == item.purchased >= item.total

IncreaseRejects_noSoldOut(d, id) ==
  \/ ~d.exists
  \/ id \notin DOMAIN d.data

\* lines 151, 161, 169: the three checks that make the call return false.
IncreaseRejects(d, id) ==
  \/ ~d.exists
  \/ id \notin DOMAIN d.data
  \/ SoldOut(d.data[id])

\* lines 147-175: read the document, run the three checks, compute
\* newPurchased from the value read.
increasePurchasedCount_getDoc(p) ==
  /\ InventoryFrame
  /\ ipc[p] = "inc_getDoc"
  /\ LET d == inventory[itype[p]] IN
       IF IncreaseRejects(d, iid[p])
         THEN Return(p, "false")
         ELSE /\ inew' = [inew EXCEPT ![p] = d.data[iid[p]].purchased + 1]
              /\ ipc' = [ipc EXCEPT ![p] = "inc_updateDoc"]
              /\ UNCHANGED <<iop, iid, itype, ikeys, iret>>
  /\ UNCHANGED <<inventory, marker, sold>>

\* The field patch of line 185: `${productId}.purchased` := value.
PatchPurchased(data, id, value) ==
  [data EXCEPT ![id] = [@ EXCEPT !.purchased = value]]

\* lines 180-188: updateDoc writes newPurchased into the one field and the
\* call returns true.
increasePurchasedCount_updateDoc(p) ==
  /\ InventoryFrame
  /\ ipc[p] = "inc_updateDoc"
  /\ inventory' = [inventory EXCEPT ![itype[p]] =
                     [@ EXCEPT !.data = PatchPurchased(@, iid[p], inew[p])]]
  /\ sold' = [sold EXCEPT ![iid[p]] = @ + 1]
  /\ Return(p, "true")
  /\ UNCHANGED marker

\* ---- restoreInventory (lines 202-226) ----

\* lines 208-218: read the document; return when absent; collect its keys.
restoreInventory_getDoc(p) ==
  /\ InventoryFrame
  /\ ipc[p] = "restore_getDoc"
  /\ IF ~inventory[itype[p]].exists
       THEN Return(p, "void")
       ELSE /\ ikeys' = [ikeys EXCEPT ![p] = DOMAIN inventory[itype[p]].data]
            /\ ipc' = [ipc EXCEPT ![p] = "restore_updateDoc"]
            /\ UNCHANGED <<iop, iid, itype, inew, iret>>
  /\ UNCHANGED <<inventory, marker, sold>>

\* The restore when it resets the records of both product types.
restoreInventory_updateDoc_allTypes(p) ==
  /\ InventoryFrame
  /\ ipc[p] = "restore_updateDoc"
  /\ inventory' = [t \in ProductTypes |->
       [inventory[t] EXCEPT !.data = [id \in DOMAIN @ |->
          [@[id] EXCEPT !.purchased = 0]]]]
  /\ sold' = [id \in Tracked |-> 0]
  /\ Return(p, "void")
  /\ UNCHANGED marker

\* line 220: one updateDoc sets `${productId}.purchased` to 0 for every key.
restoreInventory_updateDoc(p) ==
  /\ InventoryFrame
  /\ ipc[p] = "restore_updateDoc"
  /\ inventory' = [inventory EXCEPT ![itype[p]] =
       [@ EXCEPT !.data = [id \in DOMAIN @ |->
          IF id \in ikeys[p] THEN [@[id] EXCEPT !.purchased = 0] ELSE @[id]]]]
  /\ sold' = [id \in Tracked |->
                IF TypeOfId(id) = itype[p] THEN 0 ELSE sold[id]]
  /\ Return(p, "void")
  /\ UNCHANGED marker

NextInventory ==
  \E p \in Procs :
    \/ Call_initializeInventory(p)
    \/ \E id \in CallIds, type \in ProductTypes :
         Call_increasePurchasedCount(p, id, type)
    \/ \E type \in ProductTypes : Call_restoreInventory(p, type)
    \/ initializeInventory_getDoc(p)
    \/ initializeInventory_setSpecial(p)
    \/ initializeInventory_setPremium(p)
    \/ initializeInventory_setMarker(p)
    \/ increasePurchasedCount_getDoc(p)
    \/ increasePurchasedCount_updateDoc(p)
    \/ restoreInventory_getDoc(p)
    \/ restoreInventory_updateDoc(p)

\* ---- forceResetInventory (lines 91-112) ----

\* A caller invokes forceResetInventory().
Call_forceResetInventory(p) ==
  /\ InventoryFrame
  /\ ipc[p] = "idle"
  /\ ipc' = [ipc EXCEPT ![p] = "reset_setMarker"]
  /\ iop' = [iop EXCEPT ![p] = "reset"]
  /\ iid' = [iid EXCEPT ![p] = "none"]
  /\ itype' = [itype EXCEPT ![p] = "none"]
  /\ iret' = [iret EXCEPT ![p] = "none"]
  /\ UNCHANGED <<inventory, marker, inew, ikeys, sold>>

\* lines 100-103: setDoc(initialized, {initialized: false, date}) -- the
\* marker document is written, not deleted; line 106 then awaits
\* initializeInventory.
forceResetInventory_setMarker(p) ==
  /\ InventoryFrame
  /\ ipc[p] = "reset_setMarker"
  /\ marker' = "false"
  /\ ipc' = [ipc EXCEPT ![p] = "init_getDoc"]
  /\ UNCHANGED <<inventory, iop, iid, itype, inew, ikeys, iret, sold>>

\* The inventory operations together with the admin's forced reset.
NextReset ==
  \/ NextInventory
  \/ \E p \in Procs :
       \/ Call_forceResetInventory(p)
       \/ forceResetInventory_setMarker(p)

(***************************************************************************)
(* Referral bonus engine (ReferralService, part_001:1376-1637)             *)
(***************************************************************************)

NoSnap == [balance |-> 0, referralEarnings |-> 0, totalReferrals |-> 0,
           referredBy |-> NoUser, status |-> "Active"]

\* No store call of the call has failed.
NoFailure == [pc |-> "none", lvl |-> 0]

InitReferral ==
  /\ users = [u \in Users |-> [balance |-> 0, referralEarnings |-> 0,
                               totalReferrals |-> 0,
                               referredBy |-> ReferredBy(u),
                               status |-> "Active"]]
  /\ transactions = EmptyBag
  /\ notifications = [u \in Users |-> 0]
  /\ adminNotifications = 0
  /\ rpc = [p \in Procs |-> "idle"]
  /\ rop = [p \in Procs |-> "none"]
  /\ ruser = [p \in Procs |-> NoUser]
  /\ ramt = [p \in Procs |-> 0]
  /\ rlvl = [p \in Procs |-> 0]
  /\ rhop = [p \in Procs |-> 0]
  /\ rcur = [p \in Procs |-> NoUser]
  /\ rsnap = [p \in Procs |-> NoSnap]
  /\ regState = [u \in Users |-> "new"]
  /\ depCalls = [u \in Users |-> 0]
  /\ doneAmts = [u \in Users |-> {}]
  /\ doneCount = [u \in Users |-> 0]
  /\ overlap = FALSE
  /\ rref = [p \in Procs |-> NoUser]
  /\ routcome = [p \in Procs |-> "none"]
  /\ rfailed = [p \in Procs |-> NoFailure]
  /\ rtx = [p \in Procs |-> 0]
  /\ failures = 0
  /\ edits = 0

\* Math.round(amount * pct / 100) for amount >= 0 (lines 1390, 1502, 1554,
\* 1605): halves round up.
MathRound(amount, pct) == (amount * pct + 50) \div 100

\* lines 1389-1390: 24% of the welcome bonus of 300.
referralBonus == MathRound(300, 24)

\* lines 1502, 1554, 1605: 19%, 2% and 1% of the deposit.
LevelPercent(k) == CASE k = 1 -> 19 [] k = 2 -> 2 [] OTHER -> 1

LevelBonus(k, amount) == MathRound(amount, LevelPercent(k))

\* TransactionService.getTransactionsByUser (lines 227-245): the distinct
\* documents of the user.
getTransactionsByUser(userId) ==
  {t \in BagToSet(transactions) : t.userId = userId}

\* TransactionService.createTransaction (lines 248-259): addDoc adds one
\* more document.
createTransaction(t) == transactions (+) SetToBag({t})

alreadyPaid_ownTransactions(userId, referrerId) ==
  \E t \in getTransactionsByUser(userId) :
    t.type = "Referral_Bonus" /\ t.referralUserId = userId

\* lines 1467-1470: the referrer has a Referral_Bonus transaction whose
\* referralUserId is this user.
alreadyPaid(userId, referrerId) ==
  \E t \in getTransactionsByUser(referrerId) :
    t.type = "Referral_Bonus" /\ t.referralUserId = userId

RBusy(p) == rpc[p] # "idle"

\* ---- calls ----

\* processReferralBonus(newUserId, referrerId) is the registration-time
\* bonus: it is called once for a referred user, with the user's referrer,
\* before any deposit of that user is processed.
Call_processReferralBonus(p, u) ==
  /\ ReferralFrame
  /\ rpc[p] = "idle"
  /\ ReferredBy(u) # NoUser
  /\ regState[u] = "new"
  /\ depCalls[u] = 0
  /\ rpc' = [rpc EXCEPT ![p] = "reg_getUserById"]
  /\ rop' = [rop EXCEPT ![p] = "reg"]
  /\ ruser' = [ruser EXCEPT ![p] = u]
  /\ ramt' = [ramt EXCEPT ![p] = 0]
  /\ regState' = [regState EXCEPT ![u] = "running"]
  /\ overlap' = (overlap \/ \E q \in Procs \ {p} : RBusy(q))
  /\ routcome' = [routcome EXCEPT ![p] = "none"]
  /\ rfailed' = [rfailed EXCEPT ![p] = NoFailure]
  /\ rtx' = [rtx EXCEPT ![p] = 0]
  /\ UNCHANGED <<users, transactions, notifications, adminNotifications,
                 rlvl, rhop, rcur, rsnap, depCalls, doneAmts, doneCount,
                 rref, failures, edits>>

\* processDepositReferralBonus(userId, depositAmount), called by the deposit
\* flow of a registered user.
Call_processDepositReferralBonus(p, u, d) ==
  /\ ReferralFrame
  /\ rpc[p] = "idle"
  /\ regState[u] # "running"
  /\ depCalls[u] < MaxDepositCalls
  /\ rpc' = [rpc EXCEPT ![p] = "dep_getUserById"]
  /\ rop' = [rop EXCEPT ![p] = "dep"]
  /\ ruser' = [ruser EXCEPT ![p] = u]
  /\ ramt' = [ramt EXCEPT ![p] = d]
  /\ depCalls' = [depCalls EXCEPT ![u] = @ + 1]
  /\ overlap' = (overlap \/ \E q \in Procs \ {p} : RBusy(q))
  /\ routcome' = [routcome EXCEPT ![p] = "none"]
  /\ rfailed' = [rfailed EXCEPT ![p] = NoFailure]
  /\ rtx' = [rtx EXCEPT ![p] = 0]
  /\ UNCHANGED <<users, transactions, notifications, adminNotifications,
                 rlvl, rhop, rcur, rsnap, regState, doneAmts, doneCount,
                 rref, failures, edits>>

\* The operation of caller p returns.
RReturn(p) ==
  /\ rpc' = [rpc EXCEPT ![p] = "idle"]
  /\ rlvl' = [rlvl EXCEPT ![p] = 0]
  /\ rhop' = [rhop EXCEPT ![p] = 0]
  /\ rcur' = [rcur EXCEPT ![p] = NoUser]
  /\ rsnap' = [rsnap EXCEPT ![p] = NoSnap]
  /\ IF rop[p] = "reg"
       THEN /\ regState' = [regState EXCEPT ![ruser[p]] = "done"]
            /\ UNCHANGED <<doneAmts, doneCount>>
       ELSE /\ doneAmts' = [doneAmts EXCEPT ![ruser[p]] = @ \cup {ramt[p]}]
            /\ doneCount' = [doneCount EXCEPT ![ruser[p]] = @ + 1]
            /\ UNCHANGED regState
  /\ rref' = [rref EXCEPT ![p] = NoUser]
  /\ routcome' = [routcome EXCEPT ![p] = "returned"]
  /\ UNCHANGED <<rop, ruser, ramt, depCalls, overlap, rtx>>

\* ---- processReferralBonus (lines 1376-1455) ----

\* lines 1383-1398: read the referrer.
processReferralBonus_getUserById(p) ==
  /\ ReferralStep
  /\ rpc[p] = "reg_getUserById"
  /\ rcur' = [rcur EXCEPT ![p] = ReferredBy(ruser[p])]
  /\ rsnap' = [rsnap EXCEPT ![p] = users[ReferredBy(ruser[p])]]
  /\ rpc' = [rpc EXCEPT ![p] = "reg_saveUser"]
  /\ UNCHANGED <<users, transactions, notifications, adminNotifications,
                 rop, ruser, ramt, rlvl, rhop,
                 regState, depCalls, doneAmts, doneCount, overlap, routcome, rref, rtx>>

\* lines 1393-1401: saveUser writes the whole document read, with the bonus
\* added to balance and referralEarnings and totalReferrals incremented.
processReferralBonus_saveUser(p) ==
  /\ ReferralStep
  /\ rpc[p] = "reg_saveUser"
  /\ users' = [users EXCEPT ![rcur[p]] =
       [rsnap[p] EXCEPT !.balance = @ + referralBonus,
                        !.referralEarnings = @ + referralBonus,
                        !.totalReferrals = @ + 1]]
  /\ rpc' = [rpc EXCEPT ![p] = "reg_createTransaction"]
  /\ UNCHANGED <<transactions, notifications, adminNotifications,
                 rop, ruser, ramt, rlvl, rhop, rcur, rsnap,
                 regState, depCalls, doneAmts, doneCount, overlap, routcome, rref, rtx>>

\* lines 1409-1418.
processReferralBonus_createTransaction(p) ==
  /\ ReferralStep
  /\ rpc[p] = "reg_createTransaction"
  /\ transactions' = createTransaction(
       [userId |-> rcur[p], type |-> "Referral_Bonus",
        amount |-> referralBonus, referralUserId |-> ruser[p]])
  /\ rpc' = [rpc EXCEPT ![p] = "reg_createNotification"]
  /\ UNCHANGED <<users, notifications, adminNotifications,
                 rop, ruser, ramt, rlvl, rhop, rcur, rsnap,
                 regState, depCalls, doneAmts, doneCount, overlap, routcome, rref, rtx>>

\* lines 1426-1432.
processReferralBonus_createNotification(p) ==
  /\ ReferralStep
  /\ rpc[p] = "reg_createNotification"
  /\ notifications' = [notifications EXCEPT ![rcur[p]] = @ + 1]
  /\ rpc' = [rpc EXCEPT ![p] = "reg_createAdminNotification"]
  /\ UNCHANGED <<users, transactions, adminNotifications,
                 rop, ruser, ramt, rlvl, rhop, rcur, rsnap,
                 regState, depCalls, doneAmts, doneCount, overlap, routcome, rref, rtx>>

\* lines 1440-1445, then the function returns.
processReferralBonus_createAdminNotification(p) ==
  /\ ReferralStep
  /\ rpc[p] = "reg_createAdminNotification"
  /\ adminNotifications' = adminNotifications + 1
  /\ RReturn(p)
  /\ UNCHANGED <<users, transactions, notifications>>

\* ---- processDepositReferralBonus (lines 1458-1492) ----

\* lines 1460-1464: read the user; return when it has no referrer.
processDepositReferralBonus_getUserById(p) ==
  /\ ReferralStep
  /\ rpc[p] = "dep_getUserById"
  /\ IF users[ruser[p]].referredBy = NoUser
       THEN RReturn(p)
       ELSE /\ rpc' = [rpc EXCEPT ![p] = "dep_getTransactionsByUser"]
            /\ rref' = [rref EXCEPT ![p] = users[ruser[p]].referredBy]
            /\ UNCHANGED <<rop, ruser, ramt, rlvl, rhop, rcur, rsnap,
                           regState, depCalls, doneAmts, doneCount, overlap,
                           routcome, rtx>>
  /\ UNCHANGED <<users, transactions, notifications, adminNotifications>>

\* The level function k has returned  -  the variant in which the call
\* returns after the first level function.
LevelReturns_stops(p) == RReturn(p)

\* The level function k has returned  -  the variant that walks on for as
\* long as it likes: after level 3 it starts over.
LevelReturns_unbounded(p) ==
  /\ rlvl' = [rlvl EXCEPT ![p] = IF @ < 3 THEN @ + 1 ELSE 1]
  /\ rhop' = [rhop EXCEPT ![p] = 0]
  /\ rcur' = [rcur EXCEPT ![p] = NoUser]
  /\ rsnap' = [rsnap EXCEPT ![p] = NoSnap]
  /\ rpc' = [rpc EXCEPT ![p] = "lvl_getUserById"]
  /\ UNCHANGED <<rop, ruser, ramt, regState, depCalls, doneAmts, doneCount,
                 overlap, routcome, rref, rtx>>

\* The level function k has returned: the next level starts, or the call
\* returns after level 3 (lines 1480-1486).
LevelReturns(p) ==
  IF rlvl[p] < 3
    THEN /\ rlvl' = [rlvl EXCEPT ![p] = @ + 1]
         /\ rhop' = [rhop EXCEPT ![p] = 0]
         /\ rcur' = [rcur EXCEPT ![p] = NoUser]
         /\ rsnap' = [rsnap EXCEPT ![p] = NoSnap]
         /\ rpc' = [rpc EXCEPT ![p] = "lvl_getUserById"]
         /\ UNCHANGED <<rop, ruser, ramt,
                        regState, depCalls, doneAmts, doneCount, overlap, routcome, rref, rtx>>
    ELSE RReturn(p)

\* lines 1467-1475: the guard; when no bonus was paid yet level 1 starts.
processDepositReferralBonus_getTransactionsByUser(p) ==
  /\ ReferralStep
  /\ rpc[p] = "dep_getTransactionsByUser"
  /\ IF alreadyPaid(ruser[p], rref[p])
       THEN RReturn(p)
       ELSE /\ rlvl' = [rlvl EXCEPT ![p] = 1]
            /\ rhop' = [rhop EXCEPT ![p] = 0]
            /\ rpc' = [rpc EXCEPT ![p] = "lvl_getUserById"]
            /\ UNCHANGED <<rop, ruser, ramt, rcur, rsnap,
                           regState, depCalls, doneAmts, doneCount, overlap, routcome, rref, rtx>>
  /\ UNCHANGED <<users, transactions, notifications, adminNotifications>>

\* ---- processLevel1/2/3ReferralBonus (lines 1495-1637) ----

\* One getUserById of the level function k: it walks referredBy from the
\* depositing user, one user per call (1496; 1544, 1549; 1590, 1595, 1600).
\* A missing link ends the function; the k-th user read is the one to pay,
\* if the bonus is positive (1505, 1556, 1607).
processLevelReferralBonus_getUserById(p) ==
  /\ ReferralStep
  /\ rpc[p] = "lvl_getUserById"
  /\ LET from == IF rhop[p] = 0 THEN ruser[p] ELSE rcur[p]
         next == IF rhop[p] = 0 THEN rref[p]
                                ELSE rsnap[p].referredBy
     IN IF next = NoUser
          THEN LevelReturns(p)
          ELSE IF rhop[p] + 1 = rlvl[p] /\ LevelBonus(rlvl[p], ramt[p]) <= 0
            THEN LevelReturns(p)
            ELSE /\ rcur' = [rcur EXCEPT ![p] = next]
                 /\ rsnap' = [rsnap EXCEPT ![p] = users[next]]
                 /\ rhop' = [rhop EXCEPT ![p] = @ + 1]
                 /\ rpc' = [rpc EXCEPT ![p] =
                      IF rhop[p] + 1 = rlvl[p] THEN "lvl_saveUser"
                                               ELSE "lvl_getUserById"]
                 /\ UNCHANGED <<rop, ruser, ramt, rlvl,
                                regState, depCalls, doneAmts, doneCount, overlap, routcome, rref, rtx>>
  /\ UNCHANGED <<users, transactions, notifications, adminNotifications>>

\* lines 1507-1514, 1558-1563, 1609-1614: saveUser writes the whole document
\* read, with the bonus added to balance and referralEarnings.
processLevelReferralBonus_saveUser(p) ==
  /\ ReferralStep
  /\ rpc[p] = "lvl_saveUser"
  /\ users' = [users EXCEPT ![rcur[p]] =
       [rsnap[p] EXCEPT !.balance = @ + LevelBonus(rlvl[p], ramt[p]),
                        !.referralEarnings = @ + LevelBonus(rlvl[p], ramt[p])]]
  /\ rpc' = [rpc EXCEPT ![p] = "lvl_createTransaction"]
  /\ UNCHANGED <<transactions, notifications, adminNotifications,
                 rop, ruser, ramt, rlvl, rhop, rcur, rsnap,
                 regState, depCalls, doneAmts, doneCount, overlap, routcome, rref, rtx>>

\* lines 1518-1527, 1566-1575, 1617-1626.
processLevelReferralBonus_createTransaction(p) ==
  /\ ReferralStep
  /\ rpc[p] = "lvl_createTransaction"
  /\ transactions' = createTransaction(
       [userId |-> rcur[p], type |-> "Referral_Bonus",
        amount |-> LevelBonus(rlvl[p], ramt[p]), referralUserId |-> ruser[p]])
  /\ rpc' = [rpc EXCEPT ![p] = "lvl_createNotification"]
  /\ rtx' = [rtx EXCEPT ![p] = @ + 1]
  /\ UNCHANGED <<users, notifications, adminNotifications,
                 rop, ruser, ramt, rlvl, rhop, rcur, rsnap,
                 regState, depCalls, doneAmts, doneCount, overlap,
                 routcome, rref>>

\* lines 1531-1537, 1578-1584, 1629-1635, then the level function returns.
processLevelReferralBonus_createNotification(p) ==
  /\ ReferralStep
  /\ rpc[p] = "lvl_createNotification"
  /\ notifications' = [notifications EXCEPT ![rcur[p]] = @ + 1]
  /\ LevelReturns(p)
  /\ UNCHANGED <<users, transactions, adminNotifications>>

\* ---- store calls that fail ----

\* At most this many store calls fail in a behaviour.
MaxFailures == 2

\* The function throws to its caller: nothing more of it runs.
RThrow(p) ==
  /\ rpc' = [rpc EXCEPT ![p] = "idle"]
  /\ rlvl' = [rlvl EXCEPT ![p] = 0]
  /\ rhop' = [rhop EXCEPT ![p] = 0]
  /\ rcur' = [rcur EXCEPT ![p] = NoUser]
  /\ rsnap' = [rsnap EXCEPT ![p] = NoSnap]
  /\ IF rop[p] = "reg"
       THEN /\ regState' = [regState EXCEPT ![ruser[p]] = "done"]
            /\ UNCHANGED <<doneAmts, doneCount>>
       ELSE /\ doneAmts' = [doneAmts EXCEPT ![ruser[p]] = @ \cup {ramt[p]}]
            /\ doneCount' = [doneCount EXCEPT ![ruser[p]] = @ + 1]
            /\ UNCHANGED regState
  /\ rref' = [rref EXCEPT ![p] = NoUser]
  /\ routcome' = [routcome EXCEPT ![p] = "thrown"]
  /\ UNCHANGED <<rop, ruser, ramt, depCalls, overlap, rtx>>

\* Where processReferralBonus goes on when the store call at pc fails  -
\* the variant in which a failed saveUser is not caught.
regAfterFailure_propagates(pc) ==
  CASE pc = "reg_getUserById" -> "return"
    [] pc = "reg_saveUser" -> "throw"
    [] pc = "reg_createTransaction" -> "reg_createNotification"
    [] pc = "reg_createNotification" -> "reg_createAdminNotification"
    [] pc = "reg_createAdminNotification" -> "return"

\* Where processReferralBonus goes on when the store call at pc fails:
\* getUserById swallows the error and gives null, which returns (1383-1387);
\* each write sits in its own try/catch that logs and goes on (1400-1449).
regAfterFailure(pc) ==
  CASE pc = "reg_getUserById" -> "return"
    [] pc = "reg_saveUser" -> "reg_createTransaction"
    [] pc = "reg_createTransaction" -> "reg_createNotification"
    [] pc = "reg_createNotification" -> "reg_createAdminNotification"
    [] pc = "reg_createAdminNotification" -> "return"

\* Frame of a failed store call of caller p: the store is as it was.
RFails(p) ==
  /\ ReferralFrame
  /\ failures < MaxFailures
  /\ failures' = failures + 1
  /\ rfailed' = [rfailed EXCEPT ![p] = [pc |-> rpc[p], lvl |-> rlvl[p]]]
  /\ UNCHANGED <<users, transactions, notifications, adminNotifications,
                 edits>>

\* A store call of processReferralBonus fails.
processReferralBonus_fails(p) ==
  /\ rpc[p] \in {"reg_getUserById", "reg_saveUser", "reg_createTransaction",
                 "reg_createNotification", "reg_createAdminNotification"}
  /\ RFails(p)
  /\ LET next == regAfterFailure(rpc[p])
     IN CASE next = "return" -> RReturn(p)
          [] next = "throw" -> RThrow(p)
          [] OTHER ->
               /\ rpc' = [rpc EXCEPT ![p] = next]
               /\ UNCHANGED <<rop, ruser, ramt, rlvl, rhop, rcur, rsnap,
                              regState, depCalls, doneAmts, doneCount,
                              overlap, routcome, rref, rtx>>

\* A read of processDepositReferralBonus itself fails: getUserById gives
\* null and the call returns (1460-1464); getTransactionsByUser gives [] so
\* that nothing counts as already paid and level 1 starts (1467-1480).
processDepositReferralBonus_fails(p) ==
  /\ rpc[p] \in {"dep_getUserById", "dep_getTransactionsByUser"}
  /\ RFails(p)
  /\ IF rpc[p] = "dep_getUserById"
       THEN RReturn(p)
       ELSE /\ rlvl' = [rlvl EXCEPT ![p] = 1]
            /\ rhop' = [rhop EXCEPT ![p] = 0]
            /\ rpc' = [rpc EXCEPT ![p] = "lvl_getUserById"]
            /\ UNCHANGED <<rop, ruser, ramt, rcur, rsnap,
                           regState, depCalls, doneAmts, doneCount, overlap,
                           routcome, rref, rtx>>

\* A store call of a level function fails: getUserById gives null and the
\* level function returns (1496-1500, 1544-1553, 1590-1604); saveUser,
\* createTransaction and createNotification throw, the level function has no
\* try/catch, and processDepositReferralBonus rethrows (1488-1491).
processLevelReferralBonus_fails(p) ==
  /\ rpc[p] \in {"lvl_getUserById", "lvl_saveUser", "lvl_createTransaction",
                 "lvl_createNotification"}
  /\ RFails(p)
  /\ IF rpc[p] = "lvl_getUserById"
       THEN LevelReturns(p)
       ELSE RThrow(p)

\* The steps of processDepositReferralBonus of caller p once called.
DepositSteps(p) ==
  \/ processDepositReferralBonus_getUserById(p)
  \/ processDepositReferralBonus_getTransactionsByUser(p)
  \/ processLevelReferralBonus_getUserById(p)
  \/ processLevelReferralBonus_saveUser(p)
  \/ processLevelReferralBonus_createTransaction(p)
  \/ processLevelReferralBonus_createNotification(p)

\* The steps of the operations of caller p once called.
ReferralSteps(p) ==
  \/ processReferralBonus_getUserById(p)
  \/ processReferralBonus_saveUser(p)
  \/ processReferralBonus_createTransaction(p)
  \/ processReferralBonus_createNotification(p)
  \/ processReferralBonus_createAdminNotification(p)
  \/ processDepositReferralBonus_getUserById(p)
  \/ processDepositReferralBonus_getTransactionsByUser(p)
  \/ processLevelReferralBonus_getUserById(p)
  \/ processLevelReferralBonus_saveUser(p)
  \/ processLevelReferralBonus_createTransaction(p)
  \/ processLevelReferralBonus_createNotification(p)

NextReferral ==
  \E p \in Procs :
    \/ \E u \in Depositors : Call_processReferralBonus(p, u)
    \/ \E u \in Depositors, d \in Deposits :
         Call_processDepositReferralBonus(p, u, d)
    \/ ReferralSteps(p)


\* The caller of the operations that are followed one invocation at a time.
SoloProcs == {"a"}

\* ---- any referredBy graph ----

\* At most this many referredBy fields are rewritten in a behaviour.
MaxEdits == 1

\* At most this many invocations are followed over a rewritten graph.
MaxGraphCalls == 1

RECURSIVE CallsOf(_)
\* The number of processDepositReferralBonus calls made for the users of S.
CallsOf(S) ==
  IF S = {} THEN 0
  ELSE LET u == CHOOSE x \in S : TRUE
       IN depCalls[u] + CallsOf(S \ {u})

\* UserService.saveUser (lines 155-166) stores whatever referredBy the
\* document passed in carries (line 36): any user or none, the user itself
\* and a user of its own downline included.  No bonus call is in flight.
setReferredBy(u, r) ==
  /\ ReferralFrame
  /\ \A p \in Procs : rpc[p] = "idle"
  /\ edits < MaxEdits
  /\ r # users[u].referredBy
  /\ users' = [users EXCEPT ![u].referredBy = r]
  /\ edits' = edits + 1
  /\ UNCHANGED <<transactions, notifications, adminNotifications,
                 rpc, rop, ruser, ramt, rlvl, rhop, rcur, rsnap,
                 regState, depCalls, doneAmts, doneCount, overlap,
                 rref, routcome, rfailed, rtx, failures>>

\* processDepositReferralBonus(userId, depositAmount) for any user.
Call_anyDepositor(p, u, d) ==
  /\ CallsOf(Users) < MaxGraphCalls
  /\ Call_processDepositReferralBonus(p, u, d)

\* One caller at a time, over any referredBy graph.
NextReferralGraph ==
  \E p \in SoloProcs :
    \/ \E u \in Users, d \in Deposits : Call_anyDepositor(p, u, d)
    \/ \E u \in Users, r \in Users \cup {NoUser} : setReferredBy(u, r)
    \/ DepositSteps(p)

\* One caller at a time, over a store whose calls can fail.
NextReferralFail ==
  \E p \in SoloProcs :
    \/ \E u \in Depositors : Call_processReferralBonus(p, u)
    \/ \E u \in Depositors, d \in Deposits :
         Call_processDepositReferralBonus(p, u, d)
    \/ ReferralSteps(p)
    \/ processReferralBonus_fails(p)
    \/ processDepositReferralBonus_fails(p)
    \/ processLevelReferralBonus_fails(p)

(***************************************************************************)
(* Milestone reward engine (ReferralService, part_001:1743-1942)           *)
(***************************************************************************)

NoResult == [success |-> FALSE, message |-> "none"]

InitMilestone ==
  /\ rewards = EmptyBag
  /\ validCount = [u \in Users |-> 0]
  /\ mpc = [p \in Procs |-> "idle"]
  /\ muser = [p \in Procs |-> NoUser]
  /\ mtarget = [p \in Procs |-> 0]
  /\ mvalid = [p \in Procs |-> 0]
  /\ msnap = [p \in Procs |-> NoSnap]
  /\ mresult = [p \in Procs |-> NoResult]
  /\ credited = [u \in Claimants |-> [t \in ClaimTargets |-> 0]]
  /\ moverlap = FALSE
  /\ mcase = [p \in Procs |-> "none"]
  /\ mfailures = 0

MilestoneTargets == {getMilestoneConfig[i].target : i \in DOMAIN getMilestoneConfig}

\* line 1871: milestonesConfig.find(m => m.target === milestoneTarget).
RewardOf(target) ==
  LET i == CHOOSE j \in DOMAIN getMilestoneConfig :
             getMilestoneConfig[j].target = target
  IN getMilestoneConfig[i].reward

\* lines 1802-1813: the targets of the user's documents with status claimed.
claimedTargets(userId) ==
  {r.milestoneTarget : r \in {x \in BagToSet(rewards) :
                                x.userId = userId /\ x.status = "claimed"}}

\* lines 1823-1838: the loop variable allPreviousClaimed when the loop
\* reaches tier i: true at the start, false from the first unclaimed tier on.
RECURSIVE allPreviousClaimed(_, _)
allPreviousClaimed(i, claimed) ==
  IF i = 1 THEN TRUE
  ELSE IF getMilestoneConfig[i - 1].target \notin claimed THEN FALSE
  ELSE allPreviousClaimed(i - 1, claimed)

\* The status of tier i when the loop keeps no allPreviousClaimed.
TierStatus_noOrder(i, validReferrals, claimed) ==
  IF getMilestoneConfig[i].target \in claimed THEN "claimed"
  ELSE IF validReferrals >= getMilestoneConfig[i].target THEN "claimable"
  ELSE "locked"

\* lines 1825-1846: the status of tier i.
TierStatus(i, validReferrals, claimed) ==
  IF getMilestoneConfig[i].target \in claimed THEN "claimed"
  ELSE IF validReferrals >= getMilestoneConfig[i].target
          /\ allPreviousClaimed(i, claimed) THEN "claimable"
  ELSE "locked"

\* The milestones array returned by getReferralMilestoneStatus.
milestones(validReferrals, claimed) ==
  [i \in DOMAIN getMilestoneConfig |->
     [target |-> getMilestoneConfig[i].target,
      status |-> TierStatus(i, validReferrals, claimed)]]

\* The checks of the claim when only the referral count is tested.
ClaimCheck_countOnly(target, validReferrals, claimed) ==
  IF validReferrals < target THEN "Referral target not reached" ELSE "ok"

\* lines 1878-1893: the message of the check that fails on the status read,
\* "ok" when none does.
ClaimCheck(target, validReferrals, claimed) ==
  LET ms == milestones(validReferrals, claimed)
      cur == {i \in DOMAIN ms : ms[i].target = target}
  IN IF cur = {} \/ \E i \in cur : ms[i].status # "claimable"
       THEN "Milestone is not claimable yet"
     ELSE IF validReferrals < target
       THEN "Referral target not reached"
     ELSE IF \E i \in DOMAIN ms : ms[i].target < target /\ ms[i].status # "claimed"
       THEN "Please claim previous milestones first"
     ELSE "ok"

\* What a call is, by the records read at line 1805: a double claim when
\* the target already has a claimed record, an out-of-order claim when the
\* target is reached and unclaimed and some lower tier is unclaimed.
CaseOf(target, validReferrals, claimed) ==
  IF target \in claimed THEN "double"
  ELSE IF validReferrals >= target
          /\ \E t \in MilestoneTargets : t < target /\ t \notin claimed
    THEN "order"
  ELSE "none"

\* The call returns {success, message}.
MReturn(p, ok, msg) ==
  /\ mpc' = [mpc EXCEPT ![p] = "idle"]
  /\ mresult' = [mresult EXCEPT ![p] = [success |-> ok, message |-> msg]]
  /\ mvalid' = [mvalid EXCEPT ![p] = 0]
  /\ msnap' = [msnap EXCEPT ![p] = NoSnap]
  /\ UNCHANGED <<muser, mtarget>>

\* The user's direct referrals deposit and invest: the count that
\* getValidReferralCount (lines 1762-1779) returns grows.
ReferralsBecomeValid(u, n) ==
  /\ MilestoneStep
  /\ n > validCount[u]
  /\ validCount' = [validCount EXCEPT ![u] = n]
  /\ UNCHANGED <<users, transactions, rewards, mpc, muser, mtarget, mvalid,
                 msnap, mresult, credited, moverlap, mcase>>

\* claimReferralMilestone(userId, milestoneTarget), lines 1864-1874: a
\* target that is no tier returns at once.
Call_claimReferralMilestone(p, u, target) ==
  /\ MilestoneStep
  /\ mpc[p] = "idle"
  /\ muser' = [muser EXCEPT ![p] = u]
  /\ mtarget' = [mtarget EXCEPT ![p] = target]
  /\ IF target \notin MilestoneTargets
       THEN /\ mpc' = mpc
            /\ mresult' = [mresult EXCEPT ![p] =
                 [success |-> FALSE, message |-> "Invalid milestone"]]
       ELSE /\ mpc' = [mpc EXCEPT ![p] = "claim_getValidReferralCount"]
            /\ mresult' = [mresult EXCEPT ![p] = NoResult]
  /\ moverlap' = (moverlap \/ \E q \in Procs \ {p} : mpc[q] # "idle")
  /\ mcase' = [mcase EXCEPT ![p] = "none"]
  /\ UNCHANGED <<users, transactions, rewards, validCount, mvalid, msnap,
                 credited>>

\* line 1799 (inside getReferralMilestoneStatus, called at line 1876).
claimReferralMilestone_getValidReferralCount(p) ==
  /\ MilestoneStep
  /\ mpc[p] = "claim_getValidReferralCount"
  /\ mvalid' = [mvalid EXCEPT ![p] = validCount[muser[p]]]
  /\ mpc' = [mpc EXCEPT ![p] = "claim_getRewards"]
  /\ UNCHANGED <<users, transactions, rewards, validCount, muser, mtarget,
                 msnap, mresult, credited, moverlap, mcase>>

\* lines 1802-1846 and 1878-1893: read the user's reward documents, compute
\* the statuses and run the checks of the claim on them.
claimReferralMilestone_getRewards(p) ==
  /\ MilestoneStep
  /\ mpc[p] = "claim_getRewards"
  /\ LET msg == ClaimCheck(mtarget[p], mvalid[p], claimedTargets(muser[p]))
     IN IF msg # "ok"
          THEN MReturn(p, FALSE, msg)
          ELSE /\ mpc' = [mpc EXCEPT ![p] = "claim_getDocs"]
               /\ UNCHANGED <<muser, mtarget, mvalid, msnap, mresult>>
  /\ mcase' = [mcase EXCEPT ![p] =
       CaseOf(mtarget[p], mvalid[p], claimedTargets(muser[p]))]
  /\ UNCHANGED <<users, transactions, rewards, validCount, credited, moverlap>>

\* lines 1896-1905: the second look for a claimed document of this target.
claimReferralMilestone_getDocs(p) ==
  /\ MilestoneStep
  /\ mpc[p] = "claim_getDocs"
  /\ IF mtarget[p] \in claimedTargets(muser[p])
       THEN /\ MReturn(p, FALSE, "Milestone already claimed")
            /\ mcase' = [mcase EXCEPT ![p] = "double"]
       ELSE /\ mpc' = [mpc EXCEPT ![p] = "claim_getUserById"]
            /\ UNCHANGED <<muser, mtarget, mvalid, msnap, mresult, mcase>>
  /\ UNCHANGED <<users, transactions, rewards, validCount, credited, moverlap>>

\* lines 1908-1913: read the user document.
claimReferralMilestone_getUserById(p) ==
  /\ MilestoneStep
  /\ mpc[p] = "claim_getUserById"
  /\ msnap' = [msnap EXCEPT ![p] = users[muser[p]]]
  /\ mpc' = [mpc EXCEPT ![p] = "claim_saveUser"]
  /\ UNCHANGED <<users, transactions, rewards, validCount, muser, mtarget,
                 mvalid, mresult, credited, moverlap, mcase>>

\* line 1914: saveUser writes the document read with the reward added.
claimReferralMilestone_saveUser(p) ==
  /\ MilestoneStep
  /\ mpc[p] = "claim_saveUser"
  /\ users' = [users EXCEPT ![muser[p]] =
       [msnap[p] EXCEPT !.balance = @ + RewardOf(mtarget[p])]]
  /\ credited' = [credited EXCEPT ![muser[p]][mtarget[p]] = @ + 1]
  /\ mpc' = [mpc EXCEPT ![p] = "claim_addDoc"]
  /\ UNCHANGED <<transactions, rewards, validCount, muser, mtarget, mvalid,
                 msnap, mresult, moverlap, mcase>>

\* lines 1917-1923: addDoc adds a claimed document.
claimReferralMilestone_addDoc(p) ==
  /\ MilestoneStep
  /\ mpc[p] = "claim_addDoc"
  /\ rewards' = rewards (+) SetToBag({
       [userId |-> muser[p], milestoneTarget |-> mtarget[p],
        amount |-> RewardOf(mtarget[p]), status |-> "claimed"]})
  /\ mpc' = [mpc EXCEPT ![p] = "claim_createTransaction"]
  /\ UNCHANGED <<users, transactions, validCount, muser, mtarget, mvalid,
                 msnap, mresult, credited, moverlap, mcase>>

\* lines 1926-1937: log the transaction and return success.
claimReferralMilestone_createTransaction(p) ==
  /\ MilestoneStep
  /\ mpc[p] = "claim_createTransaction"
  /\ transactions' = createTransaction(
       [userId |-> muser[p], type |-> "Referral_Bonus",
        amount |-> RewardOf(mtarget[p]), referralUserId |-> NoUser])
  /\ MReturn(p, TRUE, "Successfully claimed reward")
  /\ UNCHANGED <<users, rewards, validCount, credited, moverlap, mcase>>

\* What the claim returns when the store call at pc fails: a failed read of
\* getReferralMilestoneStatus gives no claimable tier (lines 1797-1860,
\* 1878-1881), a failed getUserById gives null (1908-1911), and every other
\* failure lands in the catch of lines 1939-1942.
claimFailureMessage(pc) ==
  CASE pc \in {"claim_getValidReferralCount", "claim_getRewards"} ->
         "Milestone is not claimable yet"
    [] pc = "claim_getUserById" -> "User not found"
    [] OTHER -> "Failed to claim reward. Please try again."

\* A store call of claimReferralMilestone fails: the call returns
\* {success: false, message} and what was written before stays written.
claimReferralMilestone_fails(p) ==
  /\ MilestoneFrame
  /\ mpc[p] # "idle"
  /\ mfailures < MaxFailures
  /\ mfailures' = mfailures + 1
  /\ MReturn(p, FALSE, claimFailureMessage(mpc[p]))
  /\ UNCHANGED <<users, transactions, rewards, validCount, credited,
                 moverlap, mcase>>

\* The steps of claimReferralMilestone of caller p once called.
ClaimSteps(p) ==
  \/ claimReferralMilestone_getValidReferralCount(p)
  \/ claimReferralMilestone_getRewards(p)
  \/ claimReferralMilestone_getDocs(p)
  \/ claimReferralMilestone_getUserById(p)
  \/ claimReferralMilestone_saveUser(p)
  \/ claimReferralMilestone_addDoc(p)
  \/ claimReferralMilestone_createTransaction(p)

NextMilestone ==
  \/ \E u \in Claimants, n \in ValidCounts : ReferralsBecomeValid(u, n)
  \/ \E p \in Procs :
       \/ \E u \in Claimants, t \in ClaimTargets :
            Call_claimReferralMilestone(p, u, t)
       \/ ClaimSteps(p)

\* One caller at a time, over a store whose calls can fail.
NextMilestoneFail ==
  \/ \E u \in Claimants, n \in ValidCounts : ReferralsBecomeValid(u, n)
  \/ \E p \in SoloProcs :
       \/ \E u \in Claimants, t \in ClaimTargets :
            Call_claimReferralMilestone(p, u, t)
       \/ ClaimSteps(p)
       \/ claimReferralMilestone_fails(p)

(***************************************************************************)
(* Product lifecycle (ProductService, part_001:445-658;                    *)
(* InvestmentPlanService, part_001:1201-1318)                              *)
(***************************************************************************)

\* A caller that runs no operation.
IdleCall ==
  [pc |-> "idle", op |-> "none", user |-> NoUser, id |-> "none",
   list |-> <<>>, idx |-> 0, now |-> 0, usnap |-> NoSnap, amount |-> 0,
   credits |-> 0, txs |-> 0, result |-> NoResult]

InitProducts ==
  /\ purchased = [id \in Products |-> NoProduct]
  /\ clock = 0
  /\ pcall = [p \in Procs |-> IdleCall]
  /\ poverlap = FALSE
  /\ finalPaid = [id \in Products |-> [sweep |-> 0, claim |-> 0]]
  /\ dailyPaid = [id \in Products |-> 0]
  /\ directWrites = 0

\* lines 445-461: the documents with status Active, each with its id.
getAllActiveProducts ==
  SelectSeq([i \in DOMAIN ProductIds |->
               [id |-> ProductIds[i], doc |-> purchased[ProductIds[i]]]],
            LAMBDA x : x.doc.status = "Active")

\* The final payout when every plan type pays totalEarning.
finalPayout_specialTotal(product) ==
  product.totalEarning

\* lines 1272-1283: the final payout by plan type.
finalPayout(product) ==
  IF product.planType = "Basic" THEN product.totalEarning
  ELSE IF product.planType = "Premium" THEN product.totalEarning
  ELSE IF product.planType = "Special" THEN product.price
  ELSE 0

\* line 1237: lastPayoutDate, or startDate when the product has none.
lastPayout(product) ==
  IF product.lastPayoutDate # NoDate THEN product.lastPayoutDate
  ELSE product.startDate

\* line 1238: whole days between lastPayout and now.
daysSinceLastPayout(product, now) ==
  (now - lastPayout(product)) \div DayLen

\* What processDailyPayouts does with one product when every plan type is
\* paid daily.
SweepWork_allDaily(product, now) ==
  IF product.status = "Completed" \/ now < product.startDate THEN "skip"
  ELSE IF now >= product.endDate THEN "complete"
  ELSE IF daysSinceLastPayout(product, now) >= 1 THEN "daily"
  ELSE "skip"

\* lines 1210-1223 and 1240-1261: what processDailyPayouts does with one
\* product of the list: nothing, completePlan, a daily payout (Special), or
\* only a new lastPayoutDate (Basic, Premium).
SweepWork(product, now) ==
  IF product.status = "Completed" \/ now < product.startDate THEN "skip"
  ELSE IF now >= product.endDate THEN "complete"
  ELSE IF daysSinceLastPayout(product, now) >= 1
    THEN (IF product.planType = "Special" THEN "daily" ELSE "date")
  ELSE "skip"

\* lines 543-548: what checkAndResetExpiredProducts does with one product.
ResetWork(product, now) ==
  IF now >= product.endDate /\ product.status = "Active" THEN "reset"
  ELSE "skip"

\* What a sweep does with one product when no sweep completes a product.
Work_neverCompletes(op, product, now) ==
  IF op = "processDailyPayouts" /\ SweepWork(product, now) # "complete"
    THEN SweepWork(product, now)
  ELSE "skip"

\* lines 1210-1223 and 543-548: what a sweep does with one product.
Work(op, product, now) ==
  IF op = "processDailyPayouts" THEN SweepWork(product, now)
  ELSE ResetWork(product, now)

\* The loops of lines 1210 and 542: the first product from index i on that
\* makes the loop wait for the store, Len(list) + 1 when there is none.
RECURSIVE NextIndex(_, _, _, _)
NextIndex(op, list, i, now) ==
  IF i > Len(list) THEN i
  ELSE IF Work(op, list[i].doc, now) # "skip" THEN i
  ELSE NextIndex(op, list, i + 1, now)

\* The locals of a caller whose loop goes on at index i and runs to its next
\* store call, or to the end of the list.
Continue(c, list, i) ==
  LET j == NextIndex(c.op, list, i, clock)
  IN IF j > Len(list) THEN IdleCall
     ELSE LET doc == list[j].doc
              w == Work(c.op, doc, clock)
          IN [c EXCEPT
                !.list = list, !.idx = j, !.now = clock, !.usnap = NoSnap,
                !.credits = 0, !.txs = 0,
                !.amount = CASE w = "complete" -> finalPayout(doc)
                             [] w = "daily" -> doc.dailyEarning
                             [] OTHER -> 0,
                !.pc = CASE w = "complete" -> "completePlan_getUserById"
                         [] w = "daily" -> "processDailyPayout_getUserById"
                         [] w = "date" -> "processDailyPayout_updateProductPayoutDate"
                         [] OTHER -> "checkAndReset_updateProductStatus"]

\* The product the loop of caller p is at.
Current(p) == pcall[p].list[pcall[p].idx]

PBusy(q) == pcall[q].pc # "idle"

\* A caller starts an operation.
PStart(p) ==
  /\ pcall[p].pc = "idle"
  /\ poverlap' = (poverlap \/ \E q \in Procs \ {p} : PBusy(q))

\* addPurchasedProduct(product), lines 396-442: addDoc stores the product
\* handleInvest built; the clock counts from this moment.
addPurchasedProduct(id, type) ==
  /\ ProductFrame
  /\ purchased[id] = NoProduct
  /\ clock = 0
  /\ purchased' = [purchased EXCEPT ![id] = PurchasedProduct(type)]
  /\ UNCHANGED <<users, transactions, clock, pcall, poverlap, finalPaid,
                 dailyPaid, directWrites>>

\* new Date() returns a later time (the clock starts with the purchase).
Tick ==
  /\ ProductFrame
  /\ \E id \in Products : purchased[id] # NoProduct
  /\ clock < MaxClock
  /\ clock' = clock + 1
  /\ UNCHANGED <<users, transactions, purchased, pcall, poverlap, finalPaid,
                 dailyPaid, directWrites>>

\* processDailyPayouts(), line 1201.
Call_processDailyPayouts(p) ==
  /\ ProductFrame
  /\ PStart(p)
  /\ pcall' = [pcall EXCEPT ![p] =
       [IdleCall EXCEPT !.pc = "getAllActiveProducts",
                        !.op = "processDailyPayouts"]]
  /\ UNCHANGED <<users, transactions, purchased, clock, finalPaid, dailyPaid,
                 directWrites>>

\* checkAndResetExpiredProducts(), line 534 (DashboardPage.loadProducts,
\* chatbot.tsx:1163).
Call_checkAndResetExpiredProducts(p) ==
  /\ ProductFrame
  /\ PStart(p)
  /\ pcall' = [pcall EXCEPT ![p] =
       [IdleCall EXCEPT !.pc = "getAllActiveProducts",
                        !.op = "checkAndResetExpiredProducts"]]
  /\ UNCHANGED <<users, transactions, purchased, clock, finalPaid, dailyPaid,
                 directWrites>>

\* lines 1208 and 540: read the Active products and enter the loop.
Loop_getAllActiveProducts(p) ==
  /\ ProductFrame
  /\ pcall[p].pc = "getAllActiveProducts"
  /\ pcall' = [pcall EXCEPT ![p] = Continue(pcall[p], getAllActiveProducts, 1)]
  /\ UNCHANGED <<users, transactions, purchased, clock, poverlap, finalPaid,
                 dailyPaid, directWrites>>

\* addToUserBalance, line 1310: read the user document.
addToUserBalance_getUserById(p, next) ==
  /\ pcall' = [pcall EXCEPT ![p] =
       [@ EXCEPT !.usnap = users[Current(p).doc.userId], !.pc = next]]
  /\ UNCHANGED <<users, transactions, purchased, clock, poverlap, finalPaid,
                 dailyPaid, directWrites>>

\* addToUserBalance, lines 1312-1313: saveUser writes the document read with
\* the amount added to its balance.
addToUserBalance_saveUser(p, next) ==
  /\ users' = [users EXCEPT ![Current(p).doc.userId] =
       [pcall[p].usnap EXCEPT !.balance = @ + pcall[p].amount]]
  /\ pcall' = [pcall EXCEPT ![p] =
       [@ EXCEPT !.credits = @ + 1, !.pc = next]]
  /\ UNCHANGED <<transactions, purchased, clock, poverlap, directWrites>>

\* lines 1249-1257, 1289-1297 and 636-644: the transaction of a payout.
PayoutTransaction(userId, amount) ==
  [userId |-> userId, type |-> "Investment", amount |-> amount,
   referralUserId |-> NoUser]

\* completePlan, line 1286.
completePlan_getUserById(p) ==
  /\ ProductFrame
  /\ pcall[p].pc = "completePlan_getUserById"
  /\ addToUserBalance_getUserById(p, "completePlan_saveUser")

completePlan_saveUser(p) ==
  /\ ProductFrame
  /\ pcall[p].pc = "completePlan_saveUser"
  /\ addToUserBalance_saveUser(p, "completePlan_createTransaction")
  /\ finalPaid' = [finalPaid EXCEPT ![Current(p).id].sweep = @ + 1]
  /\ UNCHANGED dailyPaid

\* completePlan, lines 1289-1297.
completePlan_createTransaction(p) ==
  /\ ProductFrame
  /\ pcall[p].pc = "completePlan_createTransaction"
  /\ transactions' = createTransaction(
       PayoutTransaction(Current(p).doc.userId, pcall[p].amount))
  /\ pcall' = [pcall EXCEPT ![p] =
       [@ EXCEPT !.txs = @ + 1, !.pc = "completePlan_updateProductStatus"]]
  /\ UNCHANGED <<users, purchased, clock, poverlap, finalPaid, dailyPaid,
                 directWrites>>

\* completePlan, line 1300: mark the plan Completed; the loop goes on.
completePlan_updateProductStatus(p) ==
  /\ ProductFrame
  /\ pcall[p].pc = "completePlan_updateProductStatus"
  /\ purchased' = [purchased EXCEPT ![Current(p).id].status = "Completed"]
  /\ pcall' = [pcall EXCEPT ![p] =
       Continue(pcall[p], pcall[p].list, pcall[p].idx + 1)]
  /\ UNCHANGED <<users, transactions, clock, poverlap, finalPaid, dailyPaid,
                 directWrites>>

\* processDailyPayout, line 1246 (Special).
processDailyPayout_getUserById(p) ==
  /\ ProductFrame
  /\ pcall[p].pc = "processDailyPayout_getUserById"
  /\ addToUserBalance_getUserById(p, "processDailyPayout_saveUser")

processDailyPayout_saveUser(p) ==
  /\ ProductFrame
  /\ pcall[p].pc = "processDailyPayout_saveUser"
  /\ addToUserBalance_saveUser(p, "processDailyPayout_createTransaction")
  /\ dailyPaid' = [dailyPaid EXCEPT ![Current(p).id] = @ + 1]
  /\ UNCHANGED finalPaid

\* processDailyPayout, lines 1249-1257.
processDailyPayout_createTransaction(p) ==
  /\ ProductFrame
  /\ pcall[p].pc = "processDailyPayout_createTransaction"
  /\ transactions' = createTransaction(
       PayoutTransaction(Current(p).doc.userId, pcall[p].amount))
  /\ pcall' = [pcall EXCEPT ![p] =
       [@ EXCEPT !.txs = @ + 1,
                 !.pc = "processDailyPayout_updateProductPayoutDate"]]
  /\ UNCHANGED <<users, purchased, clock, poverlap, finalPaid, dailyPaid,
                 directWrites>>

\* processDailyPayout, line 1261: lastPayoutDate becomes the now of line
\* 1236; the loop goes on.
processDailyPayout_updateProductPayoutDate(p) ==
  /\ ProductFrame
  /\ pcall[p].pc = "processDailyPayout_updateProductPayoutDate"
  /\ purchased' = [purchased EXCEPT
       ![Current(p).id].lastPayoutDate = pcall[p].now]
  /\ pcall' = [pcall EXCEPT ![p] =
       Continue(pcall[p], pcall[p].list, pcall[p].idx + 1)]
  /\ UNCHANGED <<users, transactions, clock, poverlap, finalPaid, dailyPaid,
                 directWrites>>

\* checkAndResetExpiredProducts, line 548: mark the product Completed; no
\* payout follows (lines 550-553 are empty); the loop goes on.
checkAndReset_updateProductStatus(p) ==
  /\ ProductFrame
  /\ pcall[p].pc = "checkAndReset_updateProductStatus"
  /\ purchased' = [purchased EXCEPT ![Current(p).id].status = "Completed"]
  /\ pcall' = [pcall EXCEPT ![p] =
       Continue(pcall[p], pcall[p].list, pcall[p].idx + 1)]
  /\ UNCHANGED <<users, transactions, clock, poverlap, finalPaid, dailyPaid,
                 directWrites>>

\* claimReturns returns {success, message}.
PReturn(c, ok, msg) ==
  [IdleCall EXCEPT !.result = [success |-> ok, message |-> msg]]

\* claimReturns(userId, productId), line 584.
Call_claimReturns(p, u, id) ==
  /\ ProductFrame
  /\ PStart(p)
  /\ pcall' = [pcall EXCEPT ![p] =
       [IdleCall EXCEPT !.pc = "claimReturns_getDoc", !.op = "claimReturns",
                        !.user = u, !.id = id]]
  /\ UNCHANGED <<users, transactions, purchased, clock, finalPaid, dailyPaid,
                 directWrites>>

\* The preconditions of claimReturns  -  the variant without the test of
\* ownership.
ClaimReturnsCheck_noOwner(c, now) ==
  IF purchased[c.id] = NoProduct THEN "Product not found"
  ELSE IF now < purchased[c.id].endDate THEN "Cycle has not ended yet"
  ELSE IF purchased[c.id].status = "Completed"
    THEN "Returns have already been claimed"
  ELSE "ok"

\* lines 591-615: the message of the precondition that fails on the document
\* read, "ok" when none does.
ClaimReturnsCheck(c, now) ==
  IF purchased[c.id] = NoProduct THEN "Product not found"
  ELSE IF purchased[c.id].userId # c.user THEN "Unauthorized access"
  ELSE IF now < purchased[c.id].endDate THEN "Cycle has not ended yet"
  ELSE IF purchased[c.id].status = "Completed"
    THEN "Returns have already been claimed"
  ELSE "ok"

\* lines 591-618: read the product and test the preconditions.
claimReturns_getDoc(p) ==
  /\ ProductFrame
  /\ pcall[p].pc = "claimReturns_getDoc"
  /\ LET c == pcall[p]
         msg == ClaimReturnsCheck(c, clock)
     IN pcall' = [pcall EXCEPT ![p] =
          IF msg # "ok" THEN PReturn(c, FALSE, msg)
          ELSE [c EXCEPT !.pc = "claimReturns_updateDoc", !.now = clock,
                         !.amount = purchased[c.id].totalEarning]]
  /\ UNCHANGED <<users, transactions, purchased, clock, poverlap, finalPaid,
                 dailyPaid, directWrites>>

\* lines 621-624: mark the product Completed.
claimReturns_updateDoc(p) ==
  /\ ProductFrame
  /\ pcall[p].pc = "claimReturns_updateDoc"
  /\ purchased' = [purchased EXCEPT
       ![pcall[p].id].status = "Completed",
       ![pcall[p].id].lastPayoutDate = pcall[p].now]
  /\ pcall' = [pcall EXCEPT ![p] = [@ EXCEPT !.pc = "claimReturns_getUser"]]
  /\ UNCHANGED <<users, transactions, clock, poverlap, finalPaid, dailyPaid,
                 directWrites>>

\* line 627: read the user document.
claimReturns_getUser(p) ==
  /\ ProductFrame
  /\ pcall[p].pc = "claimReturns_getUser"
  /\ pcall' = [pcall EXCEPT ![p] =
       [@ EXCEPT !.usnap = users[pcall[p].user],
                 !.pc = "claimReturns_updateUser"]]
  /\ UNCHANGED <<users, transactions, purchased, clock, poverlap, finalPaid,
                 dailyPaid, directWrites>>

\* lines 630-634: updateDoc writes the balance read plus the returns.
claimReturns_updateUser(p) ==
  /\ ProductFrame
  /\ pcall[p].pc = "claimReturns_updateUser"
  /\ users' = [users EXCEPT ![pcall[p].user].balance =
       pcall[p].usnap.balance + pcall[p].amount]
  /\ finalPaid' = [finalPaid EXCEPT ![pcall[p].id].claim = @ + 1]
  /\ pcall' = [pcall EXCEPT ![p] =
       [@ EXCEPT !.credits = @ + 1, !.pc = "claimReturns_createTransaction"]]
  /\ UNCHANGED <<transactions, purchased, clock, poverlap, dailyPaid,
                 directWrites>>

\* lines 636-649: log the transaction and return success.
claimReturns_createTransaction(p) ==
  /\ ProductFrame
  /\ pcall[p].pc = "claimReturns_createTransaction"
  /\ transactions' = createTransaction(
       PayoutTransaction(pcall[p].user, pcall[p].amount))
  /\ pcall' = [pcall EXCEPT ![p] =
       PReturn(pcall[p], TRUE, "Successfully claimed returns")]
  /\ UNCHANGED <<users, purchased, clock, poverlap, finalPaid, dailyPaid,
                 directWrites>>

\* updateProductStatus(productId, status), lines 483-498, called on its own.
updateProductStatus(p, id, status) ==
  /\ ProductFrame
  /\ PStart(p)
  /\ purchased[id] # NoProduct
  /\ directWrites < MaxDirectWrites
  /\ directWrites' = directWrites + 1
  /\ purchased' = [purchased EXCEPT ![id].status = status]
  /\ UNCHANGED <<users, transactions, clock, pcall, finalPaid, dailyPaid>>

\* updateProductProgress(productId, daysCompleted), lines 464-480: the status
\* written is computed from daysCompleted and the totalDays of the document,
\* which no operation changes.
updateProductProgress(p, id, daysCompleted) ==
  /\ ProductFrame
  /\ PStart(p)
  /\ purchased[id] # NoProduct
  /\ directWrites < MaxDirectWrites
  /\ directWrites' = directWrites + 1
  /\ purchased' = [purchased EXCEPT
       ![id].daysCompleted = daysCompleted,
       ![id].status = IF daysCompleted >= purchased[id].totalDays
                        THEN "Completed" ELSE "Active"]
  /\ UNCHANGED <<users, transactions, clock, pcall, finalPaid, dailyPaid>>

NextProducts ==
  \/ \E id \in Products, type \in PlanTypes : addPurchasedProduct(id, type)
  \/ Tick
  \/ \E p \in Procs :
       \/ Call_processDailyPayouts(p)
       \/ Call_checkAndResetExpiredProducts(p)
       \/ Loop_getAllActiveProducts(p)
       \/ completePlan_getUserById(p)
       \/ completePlan_saveUser(p)
       \/ completePlan_createTransaction(p)
       \/ completePlan_updateProductStatus(p)
       \/ processDailyPayout_getUserById(p)
       \/ processDailyPayout_saveUser(p)
       \/ processDailyPayout_createTransaction(p)
       \/ processDailyPayout_updateProductPayoutDate(p)
       \/ checkAndReset_updateProductStatus(p)
       \/ \E u \in ClaimUsers, id \in ClaimIds : Call_claimReturns(p, u, id)
       \/ claimReturns_getDoc(p)
       \/ claimReturns_updateDoc(p)
       \/ claimReturns_getUser(p)
       \/ claimReturns_updateUser(p)
       \/ claimReturns_createTransaction(p)

\* The operations above together with the exported writers of a product
\* called on their own.
NextProductApi ==
  \/ NextProducts
  \/ \E p \in Procs :
       \/ \E id \in Products, st \in {"Active", "Completed"} :
            updateProductStatus(p, id, st)
       \/ \E id \in Products, d \in {0, CycleDays} :
            updateProductProgress(p, id, d)

\* The steps of a sweep of caller p after its call (the loops of lines
\* 1209-1224 and 542-555).
SweepSteps(p) ==
  \/ Loop_getAllActiveProducts(p)
  \/ completePlan_getUserById(p)
  \/ completePlan_saveUser(p)
  \/ completePlan_createTransaction(p)
  \/ completePlan_updateProductStatus(p)
  \/ processDailyPayout_getUserById(p)
  \/ processDailyPayout_saveUser(p)
  \/ processDailyPayout_createTransaction(p)
  \/ processDailyPayout_updateProductPayoutDate(p)
  \/ checkAndReset_updateProductStatus(p)

\* The steps of claimReturns of caller p after its call (lines 591-649).
ClaimReturnsSteps(p) ==
  \/ claimReturns_getDoc(p)
  \/ claimReturns_updateDoc(p)
  \/ claimReturns_getUser(p)
  \/ claimReturns_updateUser(p)
  \/ claimReturns_createTransaction(p)

\* The caller that invokes the sweeps again and again and runs nothing else;
\* the other caller is a dashboard session.
Sweeper == "a"

\* What the sweeper does: it invokes a sweep, or its sweep goes on.
SweeperRuns ==
  \/ Call_processDailyPayouts(Sweeper)
  \/ Call_checkAndResetExpiredProducts(Sweeper)
  \/ SweepSteps(Sweeper)

\* The sweeper next to a dashboard session, which loads its products
\* (chatbot.tsx:1163) and claims.
NextSweeps ==
  \/ \E id \in Products, type \in PlanTypes : addPurchasedProduct(id, type)
  \/ Tick
  \/ SweeperRuns
  \/ \E p \in Procs \ {Sweeper} :
       \/ Call_checkAndResetExpiredProducts(p)
       \/ Loop_getAllActiveProducts(p)
       \/ checkAndReset_updateProductStatus(p)
       \/ \E u \in ClaimUsers, id \in ClaimIds : Call_claimReturns(p, u, id)
       \/ ClaimReturnsSteps(p)

(***************************************************************************)
(* Purchase flow: actions (chatbot.tsx:456-1034)                           *)
(***************************************************************************)

\* handleInvest is not running.
IdleInvest ==
  [pc |-> "idle", product |-> "none", balance |-> 0, start |-> 0,
   soldout |-> FALSE, debit |-> FALSE, tx |-> FALSE, made |-> FALSE,
   outcome |-> "none", failed |-> "none"]

InitPurchase ==
  /\ userData = NoSnap
  /\ hcard = [id \in ShopIds |-> [purchased |-> 0, total |-> 0]]
  /\ hcardload = "none"
  /\ invest = IdleInvest
  /\ hfailures = 0
  /\ hcalls = 0
  /\ hreverts = 0
  /\ funds = 0
  /\ bought = [id \in ShopIds |-> 0]
  /\ tasks = 0

\* getProductAvailability (product-inventory-service.ts:248-263) on the
\* stored record: the counts of the product, 0 of 0 when it has none.
getProductAvailability(id) ==
  LET d == inventory[TypeOfId(id)]
  IN IF d.exists /\ id \in DOMAIN d.data
       THEN [purchased |-> d.data[id].purchased, total |-> d.data[id].total]
       ELSE [purchased |-> 0, total |-> 0]

\* isProductAvailable (product-inventory-service.ts:229-245) on the stored
\* record: purchased < total.
isProductAvailable(id) ==
  getProductAvailability(id).purchased < getProductAvailability(id).total

\* chatbot.tsx:510-513, 592: the Invest button of a card is disabled while
\* the card shows the product sold out; Basic cards show 0 of 999.
isSoldOut(id) ==
  Limited(id) /\ hcard[id].purchased >= hcard[id].total

\* The session starts an inventory operation; its steps are those of the
\* inventory component for caller Session.
StartInventory(op, id, type) ==
  /\ ipc[Session] = "idle"
  /\ ipc' = [ipc EXCEPT ![Session] = "init_getDoc"]
  /\ iop' = [iop EXCEPT ![Session] = op]
  /\ iid' = [iid EXCEPT ![Session] = id]
  /\ itype' = [itype EXCEPT ![Session] = type]
  /\ iret' = [iret EXCEPT ![Session] = "none"]
  /\ UNCHANGED <<inventory, marker, inew, ikeys, sold>>

\* An approved deposit is credited to the buyer (UserService.saveUser,
\* part_001:155-166), while no purchase is running.
creditDeposit(amount) ==
  /\ PurchaseFrame
  /\ invest.pc = "idle"
  /\ funds < MaxFunds
  /\ users' = [users EXCEPT ![Buyer].balance = @ + amount]
  /\ funds' = funds + 1
  /\ UNCHANGED <<ivars, transactions, userData, hcard, hcardload, invest,
                 hfailures, hcalls, hreverts, bought, tasks>>

\* chatbot.tsx:616-623: the session loads the user document into userData.
loadUserData ==
  /\ PurchaseFrame
  /\ invest.pc = "idle"
  /\ userData # users[Buyer]
  /\ userData' = users[Buyer]
  /\ UNCHANGED <<ivars, users, transactions, hcard, hcardload, invest,
                 hfailures, hcalls, hreverts, funds, bought, tasks>>

\* chatbot.tsx:489-497: the card of a limited product asks for its
\* availability; getProductAvailability starts with initializeInventory.
ProductCard_loadAvailability(id) ==
  /\ PurchaseFrame
  /\ invest.pc = "idle"
  /\ hcardload = "none"
  /\ StartInventory("init", "none", "none")
  /\ hcardload' = id
  /\ UNCHANGED <<users, transactions, userData, hcard, invest, hfailures,
                 hcalls, hreverts, funds, bought, tasks>>

\* chatbot.tsx:497-499: the counts read are put into the card.
ProductCard_setAvailability ==
  /\ PurchaseFrame
  /\ hcardload # "none"
  /\ ipc[Session] = "idle"
  /\ hcard' = [hcard EXCEPT ![hcardload] = getProductAvailability(hcardload)]
  /\ hcardload' = "none"
  /\ UNCHANGED <<ivars, users, transactions, userData, invest, hfailures,
                 hcalls, hreverts, funds, bought, tasks>>

\* handleInvest returns with the toast `outcome`; what it did stays on
\* record until Invest is pressed again.
InvestReturn(outcome) == [invest EXCEPT !.pc = "idle", !.outcome = outcome]

\* Invest is pressed and handleInvest debits without the test of the
\* balance.
Call_handleInvest_noBalanceCheck(id) ==
  /\ PurchaseFrame
  /\ invest.pc = "idle"
  /\ hcardload = "none"
  /\ ipc[Session] = "idle"
  /\ hcalls < MaxPurchases
  /\ userData # NoSnap
  /\ ~isSoldOut(id)
  /\ hcalls' = hcalls + 1
  /\ invest' =
       [IdleInvest EXCEPT
          !.pc = "saveUser",
          !.product = id,
          !.balance = userData.balance,
          !.start = users[Buyer].balance,
          !.soldout = (Limited(id) /\ ~isProductAvailable(id))]
  /\ UNCHANGED <<ivars, users, transactions, userData, hcard, hcardload,
                 hfailures, hreverts, funds, bought, tasks>>

\* chatbot.tsx:590-592 and 649-705: Invest is pressed on a card whose button
\* is enabled; handleInvest tests the balance of userData.
Call_handleInvest(id) ==
  /\ PurchaseFrame
  /\ invest.pc = "idle"
  /\ hcardload = "none"
  /\ ipc[Session] = "idle"
  /\ hcalls < MaxPurchases
  /\ userData # NoSnap
  /\ ~isSoldOut(id)
  /\ hcalls' = hcalls + 1
  /\ invest' =
       [IdleInvest EXCEPT
          !.pc = IF userData.balance < CatalogPrice(id) THEN "idle"
                 ELSE "saveUser",
          !.outcome = IF userData.balance < CatalogPrice(id)
                        THEN "Insufficient Balance" ELSE "none",
          !.product = id,
          !.balance = userData.balance,
          !.start = users[Buyer].balance,
          !.soldout = (Limited(id) /\ ~isProductAvailable(id))]
  /\ UNCHANGED <<ivars, users, transactions, userData, hcard, hcardload,
                 hfailures, hreverts, funds, bought, tasks>>

\* chatbot.tsx:708-711: saveUser writes userData with the price taken off
\* the balance, and userData follows.
handleInvest_saveUser ==
  /\ PurchaseFrame
  /\ invest.pc = "saveUser"
  /\ LET updatedUser ==
           [userData EXCEPT
              !.balance = invest.balance - CatalogPrice(invest.product)]
     IN /\ users' = [users EXCEPT ![Buyer] = updatedUser]
        /\ userData' = updatedUser
  /\ invest' = [invest EXCEPT !.pc = "createTransaction", !.debit = TRUE]
  /\ UNCHANGED <<ivars, transactions, hcard, hcardload, hfailures, hcalls,
                 hreverts, funds, bought, tasks>>

\* chatbot.tsx:714-722: the Investment transaction.
handleInvest_createTransaction ==
  /\ PurchaseFrame
  /\ invest.pc = "createTransaction"
  /\ transactions' = createTransaction(
       [userId |-> Buyer, type |-> "Investment",
        amount |-> CatalogPrice(invest.product), referralUserId |-> NoUser])
  /\ invest' = [invest EXCEPT !.pc = "testDatabaseConnection", !.tx = TRUE]
  /\ UNCHANGED <<ivars, users, userData, hcard, hcardload, hfailures, hcalls,
                 hreverts, funds, bought, tasks>>

\* chatbot.tsx:841-865: the connection test reads one document.
handleInvest_testDatabaseConnection ==
  /\ PurchaseFrame
  /\ invest.pc = "testDatabaseConnection"
  /\ invest' = [invest EXCEPT !.pc = "addPurchasedProduct"]
  /\ UNCHANGED <<ivars, users, transactions, userData, hcard, hcardload,
                 hfailures, hcalls, hreverts, funds, bought, tasks>>

\* chatbot.tsx:867-874: the PurchasedProduct document is added; a limited
\* product goes on to the inventory (897), a Basic one to the task (959).
handleInvest_addPurchasedProduct ==
  /\ PurchaseFrame
  /\ invest.pc = "addPurchasedProduct"
  /\ bought' = [bought EXCEPT ![invest.product] = @ + 1]
  /\ invest' = [invest EXCEPT
       !.pc = IF Limited(invest.product) THEN "initializeInventory"
              ELSE "createProductTask",
       !.made = TRUE]
  /\ UNCHANGED <<ivars, users, transactions, userData, hcard, hcardload,
                 hfailures, hcalls, hreverts, funds, tasks>>

\* chatbot.tsx:885-895: the catch of addPurchasedProduct writes userData
\* with currentBalance again and returns.
handleInvest_revert_saveUser ==
  /\ PurchaseFrame
  /\ invest.pc = "revert_saveUser"
  /\ LET revertedUser == [userData EXCEPT !.balance = invest.balance]
     IN /\ users' = [users EXCEPT ![Buyer] = revertedUser]
        /\ userData' = revertedUser
  /\ hreverts' = hreverts + 1
  /\ invest' = InvestReturn("Database Error")
  /\ UNCHANGED <<ivars, transactions, hcard, hcardload, hfailures, hcalls,
                 funds, bought, tasks>>

\* chatbot.tsx:902-905: initializeInventory().
handleInvest_initializeInventory ==
  /\ PurchaseFrame
  /\ invest.pc = "initializeInventory"
  /\ StartInventory("init", "none", "none")
  /\ invest' = [invest EXCEPT !.pc = "isProductAvailable"]
  /\ UNCHANGED <<users, transactions, userData, hcard, hcardload, hfailures,
                 hcalls, hreverts, funds, bought, tasks>>

\* chatbot.tsx:919: isProductAvailable starts with initializeInventory
\* again (product-inventory-service.ts:236).
handleInvest_isProductAvailable ==
  /\ PurchaseFrame
  /\ invest.pc = "isProductAvailable"
  /\ StartInventory("init", "none", "none")
  /\ invest' = [invest EXCEPT !.pc = "getInventory"]
  /\ UNCHANGED <<users, transactions, userData, hcard, hcardload, hfailures,
                 hcalls, hreverts, funds, bought, tasks>>

\* product-inventory-service.ts:238-240 and chatbot.tsx:922-929: the record
\* is read; a product that is not available ends the handler here.
handleInvest_getInventory ==
  /\ PurchaseFrame
  /\ invest.pc = "getInventory"
  /\ ipc[Session] = "idle"
  /\ invest' = IF isProductAvailable(invest.product)
                 THEN [invest EXCEPT !.pc = "increasePurchasedCount"]
                 ELSE InvestReturn("Product Unavailable")
  /\ UNCHANGED <<ivars, users, transactions, userData, hcard, hcardload,
                 hfailures, hcalls, hreverts, funds, bought, tasks>>

\* chatbot.tsx:933: increasePurchasedCount(product.id, productType).
handleInvest_increasePurchasedCount ==
  /\ PurchaseFrame
  /\ invest.pc = "increasePurchasedCount"
  /\ StartInventory("inc", invest.product, TypeOfId(invest.product))
  /\ invest' = [invest EXCEPT !.pc = "increasePurchasedCount_await"]
  /\ UNCHANGED <<users, transactions, userData, hcard, hcardload, hfailures,
                 hcalls, hreverts, funds, bought, tasks>>

\* chatbot.tsx:934-948: whatever increasePurchasedCount returned, the
\* handler goes on to the task.
handleInvest_increaseReturned ==
  /\ PurchaseFrame
  /\ invest.pc = "increasePurchasedCount_await"
  /\ ipc[Session] = "idle"
  /\ invest' = [invest EXCEPT !.pc = "createProductTask"]
  /\ UNCHANGED <<ivars, users, transactions, userData, hcard, hcardload,
                 hfailures, hcalls, hreverts, funds, bought, tasks>>

\* chatbot.tsx:962-1029: the product task is created and the handler ends.
handleInvest_createProductTask ==
  /\ PurchaseFrame
  /\ invest.pc = "createProductTask"
  /\ tasks' = tasks + 1
  /\ invest' = InvestReturn("Investment Successful!")
  /\ UNCHANGED <<ivars, users, transactions, userData, hcard, hcardload,
                 hfailures, hcalls, hreverts, funds, bought>>

\* Where handleInvest goes on when the store call at pc fails  -  the
\* variant without the revert of the debit.
investAfterFailure_noRevert(pc) ==
  CASE pc = "saveUser" -> "catch"
    [] pc = "createTransaction" -> "catch"
    [] pc = "testDatabaseConnection" -> "return"
    [] pc = "addPurchasedProduct" -> "return"
    [] pc = "revert_saveUser" -> "catch"
    [] pc = "increasePurchasedCount_await" -> "createProductTask"
    [] pc = "createProductTask" -> "done"

\* Where handleInvest goes on when the store call at pc fails.  saveUser and
\* createTransaction throw into the catch of lines 1031-1034; a failed
\* connection test returns (845-864); a failed addPurchasedProduct enters the
\* revert (875-895), whose own failure reaches the outer catch; a failed
\* increasePurchasedCount (949-955) and a failed createProductTask (987-999)
\* are reported and the handler goes on.
investAfterFailure(pc) ==
  CASE pc = "saveUser" -> "catch"
    [] pc = "createTransaction" -> "catch"
    [] pc = "testDatabaseConnection" -> "return"
    [] pc = "addPurchasedProduct" -> "revert_saveUser"
    [] pc = "revert_saveUser" -> "catch"
    [] pc = "increasePurchasedCount_await" -> "createProductTask"
    [] pc = "createProductTask" -> "done"

\* At most this many store calls of handleInvest fail in a behaviour.
MaxInvestFailures == 1

\* The store calls of handleInvest whose failure is followed.
FailPoints ==
  {"saveUser", "createTransaction", "testDatabaseConnection",
   "addPurchasedProduct", "revert_saveUser", "increasePurchasedCount_await",
   "createProductTask"}

\* A store call of handleInvest fails; a running increasePurchasedCount of
\* the session ends without its write.
handleInvest_fails ==
  /\ PurchaseFrame
  /\ invest.pc \in FailPoints
  /\ hfailures < MaxInvestFailures
  /\ hfailures' = hfailures + 1
  /\ LET next == investAfterFailure(invest.pc)
         seen == [invest EXCEPT !.failed = invest.pc]
     IN invest' =
          CASE next = "catch" ->
                 [seen EXCEPT !.pc = "idle", !.outcome = "Error"]
            [] next = "return" ->
                 [seen EXCEPT !.pc = "idle", !.outcome = "Database Error"]
            [] next = "done" ->
                 [seen EXCEPT !.pc = "idle",
                              !.outcome = "Investment Successful!"]
            [] OTHER -> [seen EXCEPT !.pc = next]
  /\ IF invest.pc = "increasePurchasedCount_await"
       THEN /\ ipc[Session] # "idle"
            /\ ipc' = [ipc EXCEPT ![Session] = "idle"]
            /\ inew' = [inew EXCEPT ![Session] = 0]
            /\ iret' = [iret EXCEPT ![Session] = "false"]
            /\ UNCHANGED <<inventory, marker, iop, iid, itype, ikeys, sold>>
       ELSE UNCHANGED ivars
  /\ UNCHANGED <<users, transactions, userData, hcard, hcardload, hcalls,
                 hreverts, funds, bought, tasks>>

\* The dashboard session of the buyer, another session buying the scarce
\* product, and a store whose calls can fail.
NextPurchase ==
  \/ \E amount \in Funds : creditDeposit(amount)
  \/ loadUserData
  \/ \E id \in {i \in ShopIds : Limited(i)} : ProductCard_loadAvailability(id)
  \/ ProductCard_setAvailability
  \/ \E id \in ShopIds : Call_handleInvest(id)
  \/ handleInvest_saveUser
  \/ handleInvest_createTransaction
  \/ handleInvest_testDatabaseConnection
  \/ handleInvest_addPurchasedProduct
  \/ handleInvest_revert_saveUser
  \/ handleInvest_initializeInventory
  \/ handleInvest_isProductAvailable
  \/ handleInvest_getInventory
  \/ handleInvest_increasePurchasedCount
  \/ handleInvest_increaseReturned
  \/ handleInvest_createProductTask
  \/ handleInvest_fails
  \/ \E id \in {i \in ShopIds : Limited(i)} :
       Call_increasePurchasedCount("b", id, TypeOfId(id))
  \/ \E p \in Procs :
       \/ initializeInventory_getDoc(p)
       \/ initializeInventory_setSpecial(p)
       \/ initializeInventory_setPremium(p)
       \/ initializeInventory_setMarker(p)
       \/ increasePurchasedCount_getDoc(p)
       \/ increasePurchasedCount_updateDoc(p)

\* The operations that write the balance of one user, side by side: the
\* buyer's session buys a Basic product over a store whose calls can fail,
\* while another caller runs, one after the other, the sweeps that pay the
\* buyer's Special product, the deposit bonus of the buyer's referral and
\* the buyer's claim of the first milestone.  The credits are what the
\* buyer pays the product with.
LedgerDepositors == {"u2"}

LedgerDeposits == {10000}

LedgerTargets == {5}

\* Caller p runs no operation.
LedgerIdle(p) ==
  /\ rpc[p] = "idle"
  /\ mpc[p] = "idle"
  /\ pcall[p].pc = "idle"

\* A sweep is invoked when it has a product to pay.
Ledger_processDailyPayouts(p) ==
  /\ LedgerIdle(p)
  /\ NextIndex("processDailyPayouts", getAllActiveProducts, 1, clock)
       <= Len(getAllActiveProducts)
  /\ Call_processDailyPayouts(p)

\* The first deposit of the referral.
Ledger_processDepositReferralBonus(p, u, d) ==
  /\ LedgerIdle(p)
  /\ depCalls[u] = 0
  /\ Call_processDepositReferralBonus(p, u, d)

\* The buyer claims once.
Ledger_claimReferralMilestone(p, u, t) ==
  /\ LedgerIdle(p)
  /\ mresult[p] = NoResult
  /\ Call_claimReferralMilestone(p, u, t)

\* What the caller of the credits does.
LedgerCredits(p) ==
  \/ Ledger_processDailyPayouts(p)
  \/ Loop_getAllActiveProducts(p)
  \/ completePlan_getUserById(p)
  \/ completePlan_saveUser(p)
  \/ completePlan_createTransaction(p)
  \/ completePlan_updateProductStatus(p)
  \/ processDailyPayout_getUserById(p)
  \/ processDailyPayout_saveUser(p)
  \/ processDailyPayout_createTransaction(p)
  \/ processDailyPayout_updateProductPayoutDate(p)
  \/ \E u \in LedgerDepositors, d \in LedgerDeposits :
       Ledger_processDepositReferralBonus(p, u, d)
  \/ DepositSteps(p)
  \/ \E u \in Claimants, t \in LedgerTargets : ReferralsBecomeValid(u, t)
  \/ \E u \in Claimants, t \in LedgerTargets :
       Ledger_claimReferralMilestone(p, u, t)
  \/ ClaimSteps(p)

NextLedger ==
  \/ loadUserData
  \/ \E id \in {i \in ShopIds : ~Limited(i)} : Call_handleInvest(id)
  \/ handleInvest_saveUser
  \/ handleInvest_createTransaction
  \/ handleInvest_testDatabaseConnection
  \/ handleInvest_addPurchasedProduct
  \/ handleInvest_revert_saveUser
  \/ handleInvest_createProductTask
  \/ handleInvest_fails
  \/ \E id \in Products : addPurchasedProduct(id, "Special")
  \/ Tick
  \/ \E p \in Procs \ {Session} : LedgerCredits(p)

\* The plan whose product is followed over its whole cycle.
LifetimePlan == getSpecialPlans[1]

\* chatbot.tsx:1170-1176 and 741-760: the PurchasedProduct handleInvest
\* builds from a Special plan of the catalog.
SpecialProduct(plan) ==
  [userId |-> Owner, planType |-> "Special", price |-> plan.price,
   dailyEarning |-> plan.dailyIncome, totalEarning |-> plan.totalReturn,
   daysCompleted |-> 0, totalDays |-> plan.cycleDays, startDate |-> 0,
   endDate |-> plan.cycleDays * DayLen, status |-> "Active",
   lastPayoutDate |-> NoDate]

\* addPurchasedProduct(product), lines 396-442, for that product.
Lifetime_addPurchasedProduct(id) ==
  /\ ProductFrame
  /\ purchased[id] = NoProduct
  /\ clock = 0
  /\ purchased' = [purchased EXCEPT ![id] = SpecialProduct(LifetimePlan)]
  /\ UNCHANGED <<users, transactions, clock, pcall, poverlap, finalPaid,
                 dailyPaid, directWrites>>

\* Time passes until the end of the cycle, the sweep having run on every
\* day that has a payout.
Lifetime_Tick ==
  /\ ProductFrame
  /\ \E id \in Products :
       purchased[id] # NoProduct /\ clock < purchased[id].endDate
  /\ \A p \in Procs : ~PBusy(p)
  /\ NextIndex("processDailyPayouts", getAllActiveProducts, 1, clock)
       > Len(getAllActiveProducts)
  /\ clock' = clock + 1
  /\ UNCHANGED <<users, transactions, purchased, pcall, poverlap, finalPaid,
                 dailyPaid, directWrites>>

\* One Special product from its purchase to its completion: one caller
\* sweeps every day and the owner claims.
NextLifetime ==
  \/ \E id \in Products : Lifetime_addPurchasedProduct(id)
  \/ Lifetime_Tick
  \/ \E p \in SoloProcs :
       \/ Ledger_processDailyPayouts(p)
       \/ Loop_getAllActiveProducts(p)
       \/ completePlan_getUserById(p)
       \/ completePlan_saveUser(p)
       \/ completePlan_createTransaction(p)
       \/ completePlan_updateProductStatus(p)
       \/ processDailyPayout_getUserById(p)
       \/ processDailyPayout_saveUser(p)
       \/ processDailyPayout_createTransaction(p)
       \/ processDailyPayout_updateProductPayoutDate(p)
       \/ \E id \in ClaimIds : Call_claimReturns(p, Owner, id)
       \/ ClaimReturnsSteps(p)

\* updateUserStatus(userId, status), part_001:169-184: updateDoc patches the
\* status field of the user document.
updateUserStatus(userId, status) ==
  /\ UNCHANGED <<ivars, rvars, mvars, pvars, hvars, transactions,
                 notifications, adminNotifications>>
  /\ users' = [users EXCEPT ![userId].status = status]

\* The credits of one user next to an administrator who suspends the user
\* and lifts the suspension.
NextStatus ==
  \/ \E s \in {"Active", "Suspended"} : updateUserStatus(Buyer, s)
  \/ \E id \in Products : addPurchasedProduct(id, "Special")
  \/ Tick
  \/ \E p \in Procs \ {Session} : LedgerCredits(p)

Init ==
  /\ InitInventory
  /\ InitReferral
  /\ InitMilestone
  /\ InitProducts
  /\ InitPurchase

\* The purchase flow of the dashboard.
SpecPurchase == Init /\ [][NextPurchase]_vars

SpecInventory == Init /\ [][NextInventory]_vars

SpecReset == Init /\ [][NextReset]_vars

SpecReferral == Init /\ [][NextReferral]_vars

\* The referral bonus engine over a store whose calls can fail.
SpecReferralFail == Init /\ [][NextReferralFail]_vars

\* The deposit bonus over referredBy graphs of any shape.
SpecReferralGraph == Init /\ [][NextReferralGraph]_vars

SpecMilestone == Init /\ [][NextMilestone]_vars

\* The milestone claims over a store whose calls can fail.
SpecMilestoneFail == Init /\ [][NextMilestoneFail]_vars

SpecProducts == Init /\ [][NextProducts]_vars

SpecProductApi == Init /\ [][NextProductApi]_vars

\* Purchases, payouts, bonuses and milestone claims on one user.
SpecLedger == Init /\ [][NextLedger]_vars

\* Credits to a user whose status an administrator changes.
SpecStatus == Init /\ [][NextStatus]_vars

\* The whole cycle of one Special product of the catalog.
SpecLifetime == Init /\ [][NextLifetime]_vars

\* The sweeps are invoked again and again and the store answers every call
\* of a sweep.
SpecSweeps == Init /\ [][NextSweeps]_vars /\ WF_vars(SweeperRuns)

(***************************************************************************)
(* Properties of the inventory                                             *)
(***************************************************************************)

\* The stored entry of a product, when its record holds it.
HasItem(type, id) ==
  type \in ProductTypes /\ inventory[type].exists /\ id \in DOMAIN inventory[type].data

Item(type, id) == inventory[type].data[id]

\* Caller p takes a step of its operation.
IStep(p) == ipc'[p] # ipc[p]

StoreUnchanged == inventory' = inventory /\ marker' = marker

\* C1: no overselling -- for every limited product the number of
\* increasePurchasedCount calls that returned true since the last restore
\* never exceeds the product's total.
C1_NoOverselling ==
  \A id \in Tracked : sold[id] <= SeedOf(TypeOfId(id))[id].total

\* C2: every product of the special and premium records satisfies
\* 0 <= purchased <= total in every reachable state.
C2_PurchasedWithinTotal ==
  \A type \in ProductTypes : \A id \in DOMAIN inventory[type].data :
    /\ 0 <= Item(type, id).purchased
    /\ Item(type, id).purchased <= Item(type, id).total

\* C2 witness: concurrent calls on special-11 have both returned true and
\* the product stands at purchased = total.
C2_Witness ==
  /\ HasItem("special", "special-11")
  /\ Item("special", "special-11").purchased = Item("special", "special-11").total
  /\ sold["special-11"] >= 2

\* C3: a successful increasePurchasedCount increments the stored purchased
\* value by exactly 1 -- the step in which a call returns true raises the
\* stored count of its product by one (no lost update).
C3_AtomicIncrement ==
  [][\A p \in Procs :
       (ipc[p] = "inc_updateDoc" /\ iret'[p] = "true")
         => inventory'[itype[p]].data[iid[p]].purchased
              = inventory[itype[p]].data[iid[p]].purchased + 1]_vars

\* C4: an increasePurchasedCount call made when the product's purchased
\* equals or exceeds its total returns false and leaves the store unchanged:
\* with the product sold out, the call's initialization check and its read
\* write nothing, do not go on to a write, and the read returns false.
C4_SoldOutCallFails ==
  [][\A p \in Procs :
       ( /\ iop[p] = "inc"
         /\ ipc[p] \in {"init_getDoc", "inc_getDoc"}
         /\ IStep(p)
         /\ HasItem(itype[p], iid[p])
         /\ Item(itype[p], iid[p]).purchased >= Item(itype[p], iid[p]).total )
         => /\ StoreUnchanged
            /\ ipc'[p] \notin {"init_setSpecial", "inc_updateDoc"}
            /\ (ipc[p] = "inc_getDoc" => ipc'[p] = "idle" /\ iret'[p] = "false")]_vars

\* C4 witness: a call for special-11 has returned false while special-11 is
\* sold out (purchased = total = 1).
C4_Witness ==
  \E p \in Procs :
    /\ ipc[p] = "idle" /\ iop[p] = "inc" /\ iret[p] = "false"
    /\ iid[p] = "special-11" /\ itype[p] = "special"
    /\ HasItem("special", "special-11")
    /\ Item("special", "special-11").purchased = 1

\* C5 (as stated): an increasePurchasedCount call returns false and writes
\* nothing to the store when the record of its product type is absent or its
\* product id is not a key of that record.
C5_AbsentOrUnknownNoMutation ==
  [][\A p \in Procs :
       ( /\ iop[p] = "inc"
         /\ IStep(p)
         /\ ~HasItem(itype[p], iid[p]) )
         => /\ StoreUnchanged
            /\ (ipc'[p] = "idle" => iret'[p] = "false")]_vars

\* C5 (amended): on an initialized store (marker present) a call whose
\* product id is not a key of the record of its type writes nothing and
\* returns false; a call that finds the marker absent does not return false
\* at once but goes on to seed the inventory.
C5_UnknownProductFails ==
  [][\A p \in Procs :
       ( /\ iop[p] = "inc"
         /\ ipc[p] \in {"init_getDoc", "inc_getDoc"}
         /\ IStep(p) )
         => /\ ( marker # "absent" /\ inventory[itype[p]].exists
                 /\ iid[p] \notin DOMAIN inventory[itype[p]].data )
                 => /\ StoreUnchanged
                    /\ ipc'[p] \notin {"init_setSpecial", "inc_updateDoc"}
                    /\ (ipc[p] = "inc_getDoc"
                          => ipc'[p] = "idle" /\ iret'[p] = "false")
            /\ ( marker = "absent" /\ ipc[p] = "init_getDoc" )
                 => ipc'[p] = "init_setSpecial"]_vars

\* C5 witness: a call with an id that is in no record has returned false on
\* an initialized store.
C5_Witness ==
  \E p \in Procs :
    /\ ipc[p] = "idle" /\ iop[p] = "inc" /\ iret[p] = "false"
    /\ iid[p] = "no-such-product"
    /\ marker # "absent" /\ inventory[itype[p]].exists

\* C6: initializeInventory is idempotent -- a call that finds the inventory
\* initialized (also after purchases) changes nothing and returns, and every
\* call returns with the marker and both records in place, so N calls in
\* sequence leave the state of the first.
C6_InitIdempotent ==
  [][\A p \in Procs :
       ( ipc[p] \in {"init_getDoc", "init_setMarker"} /\ IStep(p) )
         => /\ (ipc[p] = "init_getDoc" /\ marker # "absent")
                 => /\ StoreUnchanged
                    /\ ipc'[p] \in {"idle", "inc_getDoc"}
            /\ (ipc'[p] \in {"idle", "inc_getDoc"})
                 => /\ marker' # "absent"
                    /\ \A t \in ProductTypes :
                         /\ inventory'[t].exists
                         /\ DOMAIN inventory'[t].data = DOMAIN SeedOf(t)]_vars

\* C6 witness: both callers' last call is a returned initializeInventory and
\* special-11 still shows the purchase made before.
C6_Witness ==
  /\ \A p \in Procs : ipc[p] = "idle" /\ iop[p] = "init" /\ iret[p] = "void"
  /\ HasItem("special", "special-11")
  /\ Item("special", "special-11").purchased = 1

(***************************************************************************)
(* Properties of the referral bonus engine                                 *)
(***************************************************************************)

RECURSIVE CopiesOf(_)
\* Number of documents of the transactions collection among the distinct
\* documents S.
CopiesOf(S) ==
  IF S = {} THEN 0
  ELSE LET t == CHOOSE x \in S : TRUE
       IN CopiesIn(t, transactions) + CopiesOf(S \ {t})

\* The Referral_Bonus transactions of referrer a on behalf of user u.
BonusTx(a, u) ==
  {t \in BagToSet(transactions) :
     t.userId = a /\ t.type = "Referral_Bonus" /\ t.referralUserId = u}

\* The level-k ancestor of u (NoUser when the chain is shorter).
Ancestor(u, k) ==
  IF k = 1 THEN ReferredBy(u)
  ELSE IF k = 2 THEN ReferredBy(ReferredBy(u))
  ELSE ReferredBy(ReferredBy(ReferredBy(u)))

\* Caller p takes a step of its referral operation.
RStep(p) == rpc'[p] # rpc[p] \/ rlvl'[p] # rlvl[p] \/ rhop'[p] # rhop[p]

\* C7: each (ancestor referrer, referred user) bonus pays at most once, also
\* when two processDepositReferralBonus invocations for the same user
\* interleave: at most one Referral_Bonus transaction with referralUserId =
\* user exists per ancestor.
C7_BonusPaidOnce ==
  \A a \in Users, u \in Users : CopiesOf(BonusTx(a, u)) <= 1

C8_AtMostOne ==
  ~overlap =>
    \A u \in Depositors :
      /\ CopiesOf(BonusTx(ReferredBy(u), u)) <= 1
      /\ (\E d \in doneAmts[u] : LevelBonus(1, d) > 0)
           => CopiesOf(BonusTx(ReferredBy(u), u)) = 1

C9_LevelAmounts ==
  \A u \in Depositors :
    (~overlap /\ doneCount[u] = 1 /\ Ancestor(u, 3) # NoUser)
      => \A d \in doneAmts[u] : \A k \in 1..3 :
           LET a == Ancestor(u, k) IN
             /\ CopiesOf(BonusTx(a, u)) = 1
             /\ \A t \in BonusTx(a, u) : t.amount = LevelBonus(k, d)
             /\ users[a].balance = LevelBonus(k, d)

(***************************************************************************)
(* Properties of the milestone reward engine                               *)
(***************************************************************************)

\* The claimed documents of (user, target) in referral_rewards.
ClaimedDocs(u, t) ==
  {r \in BagToSet(rewards) :
     r.userId = u /\ r.milestoneTarget = t /\ r.status = "claimed"}

RECURSIVE RewardCopies(_)
RewardCopies(S) ==
  IF S = {} THEN 0
  ELSE LET r == CHOOSE x \in S : TRUE
       IN CopiesIn(r, rewards) + RewardCopies(S \ {r})

\* C10: in every reachable state there is at most one claimed MilestoneClaim
\* record per (user, target) pair and the reward of the pair has been
\* credited at most once, also when two claimReferralMilestone calls for the
\* same pair run concurrently.
C10_OneClaimPerTarget ==
  \A u \in Claimants, t \in ClaimTargets :
    /\ RewardCopies(ClaimedDocs(u, t)) <= 1
    /\ credited[u][t] <= 1

\* One step of caller p inside claimReferralMilestone.
MStep(p) == mpc'[p] # mpc[p]

\* C11: when the same claimable target is claimed twice in sequence, the
\* first call goes on to credit the reward and returns success, the second
\* call returns success false with the message that the milestone is already
\* claimed, and the reward has been added to the balance exactly once.
C11_SecondClaimAlreadyClaimed ==
  [][~moverlap' =>
       \A p \in Procs :
         LET u == muser[p]
             t == mtarget[p]
             claimed == claimedTargets(u)
             cur == {i \in DOMAIN getMilestoneConfig :
                       getMilestoneConfig[i].target = t}
         IN /\ (mpc[p] = "claim_getRewards" /\ MStep(p)
                 /\ \E i \in cur : TierStatus(i, mvalid[p], claimed) = "claimable")
                  => mpc'[p] = "claim_getDocs"
            /\ (mpc[p] = "claim_createTransaction" /\ MStep(p))
                  => /\ mresult'[p].success
                     /\ credited'[u][t] = 1
            /\ (mpc[p] = "claim_getRewards" /\ MStep(p) /\ t \in claimed)
                  => /\ mpc'[p] = "idle"
                     /\ mresult'[p] = [success |-> FALSE,
                                       message |-> "Milestone already claimed"]
                     /\ credited'[u][t] = 1]_vars

\* C12: getReferralMilestoneStatus gives every tier exactly one status:
\* claimed when the tier's target has a claimed record; claimable when it has
\* none, the valid referral count is at least the target and every tier with
\* a strictly lower target is claimed; locked otherwise.
C12_TierStatuses ==
  \A u \in Claimants :
    LET v == validCount[u]
        c == claimedTargets(u)
        ms == milestones(v, c)
    IN /\ DOMAIN ms = DOMAIN getMilestoneConfig
       /\ \A i \in DOMAIN ms :
            LET t == ms[i].target
                lowerClaimed == \A l \in MilestoneTargets : l < t => l \in c
            IN /\ t = getMilestoneConfig[i].target
               /\ ms[i].status \in {"claimed", "claimable", "locked"}
               /\ ms[i].status = "claimed" <=> t \in c
               /\ ms[i].status = "claimable"
                    <=> (t \notin c /\ v >= t /\ lowerClaimed)
               /\ ms[i].status = "locked"
                    <=> (t \notin c /\ ~(v >= t /\ lowerClaimed))

\* C12 witness: 40 valid referrals with VIP1 unclaimed, VIP2 is locked, and
\* a claim of target 15 read exactly that and returned.
C12_Witness ==
  /\ validCount["u1"] = 40
  /\ claimedTargets("u1") = {}
  /\ milestones(40, {})[2].target = 15
  /\ milestones(40, {})[2].status = "locked"
  /\ \E p \in Procs : /\ mpc[p] = "idle"
                       /\ mtarget[p] = 15
                       /\ mcase[p] = "order"
                       /\ ~mresult[p].success

\* C13: the claimed targets of a user are always a prefix of the ladder:
\* a claimed target has every lower target claimed, whatever the
\* interleaving of the claim calls.
C13_ClaimedIsPrefix ==
  \A u \in Claimants :
    \A t \in claimedTargets(u) :
      \A l \in MilestoneTargets : l < t => l \in claimedTargets(u)

\* C13 witness: calls overlapped and the first two tiers are claimed.
C13_Witness ==
  /\ moverlap
  /\ {5, 15} \subseteq claimedTargets("u1")
  /\ 30 \notin claimedTargets("u1")

\* C14: a double claim and an out-of-order claim both return success false,
\* and the two messages differ.
C14_DistinctFailureMessages ==
  \A p, q \in Procs :
    (/\ mpc[p] = "idle" /\ mcase[p] = "double"
     /\ mpc[q] = "idle" /\ mcase[q] = "order")
      => /\ ~mresult[p].success
         /\ ~mresult[q].success
         /\ mresult[p].message # mresult[q].message

(***************************************************************************)
(* Properties of the product lifecycle                                     *)
(***************************************************************************)

\* One step of caller p inside a product operation.
PStep(p) == pcall'[p] # pcall[p]

\* Sum of the amounts of the transactions collection over the distinct
\* documents S.
RECURSIVE AmountOf(_)
AmountOf(S) ==
  IF S = {} THEN 0
  ELSE LET t == CHOOSE x \in S : TRUE
       IN CopiesIn(t, transactions) * t.amount + AmountOf(S \ {t})

\* A claimReturns call has marked product id Completed and has not yet
\* written the balance.
ClaimPaying(id) ==
  \E p \in Procs :
    /\ pcall[p].op = "claimReturns"
    /\ pcall[p].id = id
    /\ pcall[p].pc \in {"claimReturns_getUser", "claimReturns_updateUser"}

\* C15: when the expiry sweep and claimReturns work on the same expired
\* Active product, only one of them pays its final payout: a product is
\* never paid both by a sweep and by a claim (no direct status write
\* involved).
C15_SweepAndClaimExclusive ==
  \A id \in Products :
    directWrites = 0 => ~(finalPaid[id].sweep >= 1 /\ finalPaid[id].claim >= 1)

\* C16: a sweep that completes an expired Active product credits the owner
\* once, with totalEarning for a Basic or Premium product and price for a
\* Special product, logs one transaction of that amount, and marks the
\* product Completed; when no operation overlapped, the balance is then the
\* balance read plus that amount.
C16_SweepFinalPayout ==
  [][\A p \in Procs :
       LET c == pcall[p]
           doc == c.list[c.idx].doc
           id == c.list[c.idx].id
           due == IF doc.planType = "Special" THEN doc.price
                  ELSE doc.totalEarning
       IN /\ (c.pc = "completePlan_saveUser" /\ PStep(p))
                => /\ doc.planType \in {"Basic", "Premium", "Special"}
                   /\ users'[doc.userId].balance = c.usnap.balance + due
          /\ (c.pc = "completePlan_createTransaction" /\ PStep(p))
                => transactions' =
                     transactions (+) SetToBag({PayoutTransaction(doc.userId, due)})
          /\ (c.pc = "completePlan_updateProductStatus" /\ PStep(p))
                => /\ c.credits = 1
                   /\ c.txs = 1
                   /\ purchased'[id].status = "Completed"
                   /\ ~poverlap => users[doc.userId].balance = c.usnap.balance + due]_vars

\* C16 witness: a sweep that overlapped nothing completed the Special
\* product before any daily payout: the balance is the price, 3000, in one
\* transaction.
C16_Witness ==
  /\ ~poverlap
  /\ directWrites = 0
  /\ \A p \in Procs : ~PBusy(p)
  /\ purchased["p1"].planType = "Special"
  /\ purchased["p1"].status = "Completed"
  /\ finalPaid["p1"] = [sweep |-> 1, claim |-> 0]
  /\ dailyPaid["p1"] = 0
  /\ users[Owner].balance = 3000
  /\ transactions = SetToBag({PayoutTransaction(Owner, 3000)})

\* C17: every Completed product has had its final payout credited to its
\* owner (apart from a claimReturns call that is between marking the product
\* and writing the balance, and with no direct status write involved).
C17_CompletedWasPaid ==
  \A id \in Products :
    (/\ directWrites = 0
     /\ purchased[id].status = "Completed"
     /\ ~ClaimPaying(id))
      => finalPaid[id].sweep + finalPaid[id].claim >= 1

\* C18: for a Special product every daily payout adds exactly dailyEarning to
\* the balance read, and the number of daily payouts credited never exceeds
\* the whole days elapsed since startDate.
C18_DailyPayouts ==
  [][/\ \A p \in Procs :
          (pcall[p].pc = "processDailyPayout_saveUser" /\ PStep(p))
            => LET doc == Current(p).doc
               IN users'[doc.userId].balance =
                    pcall[p].usnap.balance + doc.dailyEarning
     /\ \A id \in Products :
          dailyPaid'[id] <= (clock' - purchased'[id].startDate) \div DayLen]_vars

\* C19: a product that is Completed stays Completed in every step.
C19_CompletedIsTerminal ==
  [][\A id \in Products :
       purchased[id].status = "Completed"
         => purchased'[id].status = "Completed"]_vars

\* C20: whenever no operation is in flight, the balance of the owner is the
\* starting balance, 0, plus the amounts of all transactions recorded for the
\* owner (every transaction of the product operations is a credit).
C20_BalanceMatchesTransactions ==
  (\A p \in Procs : ~PBusy(p))
    => users[Owner].balance =
         AmountOf({t \in BagToSet(transactions) : t.userId = Owner})

(***************************************************************************)
(* Claims C21..C30                                                         *)
(***************************************************************************)

\* A store call of the level function of caller p fails in this step.
LevelFails(p) ==
  /\ rop[p] = "dep"
  /\ rlvl[p] >= 1
  /\ rfailed'[p] # rfailed[p]
  /\ rfailed'[p].pc # "none"

\* C24: a failure of any sub-step of the level-k payout does not block the
\* later levels: after a failed store call of level 1 or 2 the invocation goes
\* on with the next level.
C24_LevelFailureIsolated ==
  [][\A p \in Procs :
       (LevelFails(p) /\ rlvl[p] < 3)
         => /\ rpc'[p] = "lvl_getUserById"
            /\ rlvl'[p] = rlvl[p] + 1]_vars

\* C25: processDepositReferralBonus throws only when a balance credit or a
\* transaction record failed; a failed createNotification never makes it
\* throw.
C25_NotificationFailureNeverThrows ==
  \A p \in Procs :
    (rop[p] = "dep" /\ routcome[p] = "thrown")
      => rfailed[p].pc \in {"lvl_saveUser", "lvl_createTransaction"}

\* C26: processReferralBonus never propagates an error: whichever of its
\* store calls fail, the call does not end by throwing.
C26_RegistrationBonusBestEffort ==
  \A p \in Procs : rop[p] = "reg" => routcome[p] # "thrown"

\* A processReferralBonus call whose last store call failed has returned.
C26_Witness ==
  \E p \in Procs :
    /\ rop[p] = "reg"
    /\ routcome[p] = "returned"
    /\ rfailed[p].pc = "reg_createAdminNotification"
    /\ failures = MaxFailures

\* The referredBy field stored for u (none for no user).
Link(u) == IF u = NoUser THEN NoUser ELSE users[u].referredBy

\* The level-k ancestor of u in the stored referredBy graph.
StoredAncestor(u, k) ==
  IF k = 1 THEN Link(u)
  ELSE IF k = 2 THEN Link(Link(u))
  ELSE Link(Link(Link(u)))

\* The levels processDepositReferralBonus(u, d) has somebody to pay at.
PayableLevels(u, d) ==
  {k \in 1..3 : StoredAncestor(u, k) # NoUser
                  /\ MathRound(d, LevelPercent(k)) > 0}

\* Caller p takes a step inside processDepositReferralBonus.
DepositStep(p) == rop[p] = "dep" /\ rpc[p] # "idle" /\ RStep(p)

\* C29: processDepositReferralBonus pays only the ancestor levels that exist.
\* With referredBy unset the call returns at once and changes nothing; every
\* credit goes to the stored level-k ancestor and adds the level-k bonus; a
\* call that went through the levels returns normally having recorded one
\* transaction for each level that has an ancestor (and a positive bonus),
\* none for a missing level.
C29_PaysExistingLevels ==
  [][\A p \in Procs :
       DepositStep(p) =>
         LET u == ruser[p]
             d == ramt[p]
         IN /\ (rpc[p] = "dep_getUserById" /\ users[u].referredBy = NoUser)
                 => /\ rpc'[p] = "idle"
                    /\ rtx'[p] = 0
                    /\ UNCHANGED <<users, transactions, notifications,
                                   adminNotifications>>
            /\ rpc[p] = "lvl_saveUser"
                 => /\ rcur[p] # NoUser
                    /\ rcur[p] = StoredAncestor(u, rlvl[p])
                    /\ users'[rcur[p]].balance =
                         users[rcur[p]].balance
                           + MathRound(d, LevelPercent(rlvl[p]))
            /\ rpc'[p] = "idle" => routcome'[p] = "returned"
            /\ (rpc'[p] = "idle" /\ rlvl[p] >= 1)
                 => rtx'[p] = Cardinality(PayableLevels(u, d))]_vars

\* C29 as stated: a call that went through the levels has recorded one
\* transaction for every ancestor level that exists, whatever the deposit.
C29_EveryExistingLevelCredited ==
  [][\A p \in Procs :
       (DepositStep(p) /\ rpc'[p] = "idle" /\ rlvl[p] >= 1)
         => rtx'[p] = Cardinality({k \in 1..3 :
                         StoredAncestor(ruser[p], k) # NoUser})]_vars

\* An invocation for u3, which has two ancestors, has paid exactly two
\* levels and returned.
C29_Witness ==
  \E p \in Procs :
    /\ rop[p] = "dep"
    /\ routcome[p] = "returned"
    /\ ruser[p] = "u3"
    /\ edits = 0
    /\ Cardinality({k \in 1..3 : StoredAncestor("u3", k) # NoUser}) = 2
    /\ rtx[p] = 2

\* How far the invocation of caller p has got: the store calls of
\* processDepositReferralBonus in program order, 20 once it has ended.
Rank(p) ==
  CASE rpc[p] = "dep_getUserById" -> 0
    [] rpc[p] = "dep_getTransactionsByUser" -> 1
    [] rpc[p] = "lvl_getUserById" -> 2 + 6 * (rlvl[p] - 1) + rhop[p]
    [] rpc[p] = "lvl_saveUser" -> 2 + 6 * (rlvl[p] - 1) + 3
    [] rpc[p] = "lvl_createTransaction" -> 2 + 6 * (rlvl[p] - 1) + 4
    [] rpc[p] = "lvl_createNotification" -> 2 + 6 * (rlvl[p] - 1) + 5
    [] OTHER -> 20

\* C30: one invocation of processDepositReferralBonus terminates and appends
\* at most 3 Referral_Bonus transactions, whatever the referredBy graph,
\* cycles included: every step of the invocation moves it strictly forward
\* in a program order of 20 positions, and it never records more than 3
\* transactions.
C30_TerminatesWithinThreeLevels ==
  [][\A p \in Procs :
       DepositStep(p) =>
         /\ Rank(p)' > Rank(p)
         /\ Rank(p)' <= 20
         /\ rtx'[p] <= 3]_vars

\* An invocation for a user in a two-cycle (the referrer of its referrer is
\* the user itself) has paid three levels and returned.
C30_Witness ==
  \E p \in Procs :
    /\ rop[p] = "dep"
    /\ routcome[p] = "returned"
    /\ StoredAncestor(ruser[p], 2) = ruser[p]
    /\ rtx[p] = 3

\* The preconditions of claimReturns(c.user, c.id) on the stored product.
ClaimAllowed(c) ==
  /\ purchased[c.id] # NoProduct
  /\ purchased[c.id].userId = c.user
  /\ clock >= purchased[c.id].endDate
  /\ purchased[c.id].status # "Completed"

\* The messages of the failed preconditions of claimReturns.
ClaimRefusals ==
  {"Product not found", "Unauthorized access", "Cycle has not ended yet",
   "Returns have already been claimed"}

\* C28: claimReturns goes on to its writes, and so to success, only if on
\* the product read the caller owns it, now >= endDate and the status is not
\* Completed; otherwise it returns {success: false, message} in that step and
\* the product, the balance and the transaction log stay as they are.
C28_ClaimReturnsPreconditions ==
  [][\A p \in Procs :
       (pcall[p].op = "claimReturns" /\ PStep(p)) =>
         LET c == pcall[p]
         IN /\ (c.pc = "claimReturns_getDoc" /\ ~ClaimAllowed(c))
                 => /\ pcall'[p].pc = "idle"
                    /\ pcall'[p].result.success = FALSE
                    /\ pcall'[p].result.message \in ClaimRefusals
                    /\ UNCHANGED <<purchased, users, transactions>>
            /\ (c.pc = "claimReturns_getDoc" /\ ClaimAllowed(c))
                 => pcall'[p].pc = "claimReturns_updateDoc"
            /\ c.pc # "claimReturns_getDoc"
                 => /\ purchased[c.id].userId = c.user
                    /\ c.now >= purchased[c.id].endDate
            /\ (pcall'[p].pc = "idle" /\ pcall'[p].result.success)
                 => c.pc = "claimReturns_createTransaction"]_vars

\* A claim of somebody else's product has been refused after the owner's
\* claim of the same product was paid.
C28_Witness ==
  \E p \in Procs, id \in Products :
    /\ pcall[p].pc = "idle"
    /\ pcall[p].result = [success |-> FALSE,
                          message |-> "Unauthorized access"]
    /\ finalPaid[id].claim = 1
    /\ users[Owner].balance = purchased[id].totalEarning

\* Caller p has credited the reward of its claim and not yet recorded it.
ClaimRecording(p, u, t) ==
  /\ mpc[p] = "claim_addDoc"
  /\ muser[p] = u
  /\ mtarget[p] = t

\* C27: claimReferralMilestone is all-or-nothing.  A call that returns
\* success: false has not credited the balance, and once no claim of (user,
\* tier) is between its credit and its record, a credited tier has a claimed
\* record.
C27_ClaimAllOrNothing ==
  [][/\ \A p \in Procs :
          (mpc[p] # "idle" /\ mpc'[p] = "idle" /\ ~mresult'[p].success)
            => mpc[p] \notin {"claim_addDoc", "claim_createTransaction"}
     /\ \A u \in Claimants, t \in ClaimTargets :
          (credited'[u][t] > 0 /\ \A p \in Procs : ~ClaimRecording(p, u, t)')
            => t \in claimedTargets(u)']_vars

\* handleInvest ends in this step.
InvestEnds == invest.pc # "idle" /\ invest'.pc = "idle"

\* A store call of handleInvest fails in this step.
InvestFails == hfailures' = hfailures + 1

\* C21: a purchase of a limited product that is sold out when Invest is
\* pressed fails as a precondition: it never debits the balance, records no
\* Investment transaction and creates no PurchasedProduct.
C21_SoldOutPurchaseRefused ==
  invest.soldout => (~invest.debit /\ ~invest.tx /\ ~invest.made)

\* C22: whenever handleInvest ends without a PurchasedProduct having been
\* created, the stored balance of the buyer equals the balance before the
\* purchase (the session having seen that balance when Invest was pressed).
C22_FailedPurchaseNoSideEffects ==
  [][(InvestEnds /\ ~invest'.made /\ invest.balance = invest.start)
       => users'[Buyer].balance = invest.start]_vars

\* C23: a failed addPurchasedProduct is followed by the revert, which sets
\* the stored balance back to the balance before the purchase and leaves no
\* PurchasedProduct; a failed increasePurchasedCount or createProductTask
\* changes neither the balance nor the products and reverts nothing, and a
\* purchase that created its PurchasedProduct ends with the balance debited.
C23_RevertOnlyOnProductFailure ==
  [][/\ (InvestFails /\ invest.pc = "addPurchasedProduct")
          => invest'.pc = "revert_saveUser"
     /\ (invest.pc = "revert_saveUser" /\ hreverts' = hreverts + 1)
          => /\ users'[Buyer].balance = invest.balance
             /\ invest.balance = invest.start
                  => users'[Buyer].balance = invest.start
             /\ ~invest'.made
             /\ bought' = bought
     /\ (InvestFails /\ invest.pc \in {"increasePurchasedCount_await",
                                        "createProductTask"})
          => /\ UNCHANGED <<users, bought, hreverts>>
             /\ invest'.made
             /\ invest'.outcome \in {"none", "Investment Successful!"}
     /\ (InvestEnds /\ invest'.made)
          => users'[Buyer].balance =
               invest.balance - CatalogPrice(invest.product)]_vars

\* A purchase whose addPurchasedProduct failed has ended: the debit was
\* written and reverted, and the buyer has the balance of before and no
\* product.
C23_Witness ==
  /\ hreverts = 1
  /\ invest.pc = "idle"
  /\ invest.failed = "addPurchasedProduct"
  /\ invest.debit
  /\ ~invest.made
  /\ bought[invest.product] = 0
  /\ invest.start >= CatalogPrice(invest.product)
  /\ users[Buyer].balance = invest.start

(***************************************************************************)
(* Claims C31..C40                                                         *)
(***************************************************************************)

\* A product that is Active after its endDate.
Expired(id) ==
  /\ purchased[id].status = "Active"
  /\ clock >= purchased[id].endDate

\* C31: when the sweeps are invoked again and again and the store answers,
\* every Active product whose endDate has passed eventually is Completed.
C31_ExpiredEventuallyCompleted ==
  \A id \in Products :
    Expired(id) ~> (purchased[id].status = "Completed")

\* A sweep of the sweeper has just marked an expired product Completed.
C31_Witness ==
  \E id \in Products :
    /\ purchased[id].status = "Completed"
    /\ clock >= purchased[id].endDate
    /\ finalPaid[id].claim = 0
    /\ pcall["b"].pc = "idle"
    /\ pcall["b"].result = NoResult
    /\ poverlap = FALSE

\* C32: a daily sweep over an Active, not yet expired Basic or Premium
\* product credits nothing -- the only store call it makes for the product is
\* the write of lastPayoutDate, and no step of it changes a user document or
\* the transaction log.
C32_SilentAccrual ==
  [][\A p \in Procs :
       LET c == pcall[p]
           doc == c.list[c.idx].doc
       IN (/\ c.op = "processDailyPayouts"
           /\ c.pc \notin {"idle", "getAllActiveProducts"}
           /\ doc.planType \in {"Basic", "Premium"}
           /\ c.now < doc.endDate
           /\ PStep(p))
            => /\ c.pc = "processDailyPayout_updateProductPayoutDate"
               /\ users' = users
               /\ transactions' = transactions]_vars

\* C32 witness: a daily sweep has gone over a Basic product a day after the
\* purchase: the product has its lastPayoutDate, the balance and the
\* transaction log are as they were.
C32_Witness ==
  /\ purchased["p1"].planType = "Basic"
  /\ purchased["p1"].status = "Active"
  /\ purchased["p1"].lastPayoutDate = DayLen
  /\ clock < purchased["p1"].endDate
  /\ \A p \in Procs : ~PBusy(p)
  /\ users[Owner].balance = 0
  /\ transactions = EmptyBag

\* C33: restoreInventory(type) sets purchased to 0 for every product of
\* that type and changes nothing else -- its read changes nothing, and its
\* write leaves every total and name of the record, the record of the other
\* type and the marker as they were.
C33_RestoreOnlyResetsPurchased ==
  [][\A p \in Procs :
       (iop[p] = "restore" /\ IStep(p))
         => /\ marker' = marker
            /\ \A t \in ProductTypes \ {itype[p]} :
                 inventory'[t] = inventory[t]
            /\ ipc[p] = "restore_getDoc" => inventory' = inventory
            /\ ipc[p] = "restore_updateDoc" =>
                 /\ inventory'[itype[p]].exists
                 /\ DOMAIN inventory'[itype[p]].data
                      = DOMAIN inventory[itype[p]].data
                 /\ \A id \in DOMAIN inventory[itype[p]].data :
                      inventory'[itype[p]].data[id]
                        = [purchased |-> 0,
                           total |-> inventory[itype[p]].data[id].total,
                           name |-> inventory[itype[p]].data[id].name]]_vars

\* C33 witness: caller b sold the one unit of special-11 and a unit of
\* premium-9 was sold; restoreInventory('special') of caller a then returned:
\* special-11 is back at 0 of 1 and premium-9 still has its sale.
C33_Witness ==
  /\ iop["a"] = "restore" /\ itype["a"] = "special"
  /\ ipc["a"] = "idle" /\ iret["a"] = "void"
  /\ iop["b"] = "inc" /\ iid["b"] = "special-11"
  /\ ipc["b"] = "idle" /\ iret["b"] = "true"
  /\ sold["premium-9"] = 1
  /\ inventory["premium"].exists
  /\ inventory["premium"].data["premium-9"]
       = [purchased |-> 1, total |-> 2, name |-> "Premium 9"]
  /\ inventory["special"].exists
  /\ inventory["special"].data["special-11"]
       = [purchased |-> 0, total |-> 1, name |-> "Special 11"]
  /\ sold["special-11"] = 0

\* C34: in every reachable state every user's balance is non-negative,
\* for any interleaving of purchases (the debit, and the revert after a
\* failed product creation), payouts, bonuses and milestone claims on the
\* user.
C34_BalanceNonNegative ==
  \A u \in Users : users[u].balance >= 0

\* C34 witness: the bonus of 1900 and the milestone reward of 1000 paid for
\* the Basic product; the debit left 400, a daily payout was credited while
\* the purchase ran, the creation of the product failed and the revert
\* wrote the 2900 back.
C34_Witness ==
  /\ invest.pc = "idle"
  /\ invest.debit
  /\ invest.failed = "addPurchasedProduct"
  /\ hreverts = 1
  /\ credited[Buyer][5] = 1
  /\ dailyPaid["p1"] = 1
  /\ \E t \in BagToSet(transactions) :
       t.userId = Buyer /\ t.type = "Referral_Bonus" /\ t.referralUserId = "u2"
  /\ users[Buyer].balance = 2900

\* C35: for every Special plan of the catalog the dashboard sells from,
\* totalReturn is price + dailyIncome x cycleDays, where dailyIncome is
\* price x dailyROI / 100 (dailyROI being kept in tenths of a percent, the
\* division is by 1000).
C35_SpecialTotalReturn ==
  hcalls > 0 =>
    \A i \in DOMAIN getSpecialPlans :
      LET plan == getSpecialPlans[i]
      IN /\ plan.dailyIncome * 1000 = plan.price * plan.dailyROI
         /\ plan.totalReturn = plan.price + plan.dailyIncome * plan.cycleDays

\* C36: initializeInventory never lowers a stored purchased count -- once
\* increasePurchasedCount has returned true for a product, no step of an
\* initializeInventory call, the one inside increasePurchasedCount and one
\* that read the missing marker before another caller finished initializing
\* included, leaves the product with a lower purchased.
C36_InitKeepsPurchased ==
  [][\A p \in Procs :
       (/\ ipc[p] \in {"init_getDoc", "init_setSpecial", "init_setPremium",
                       "init_setMarker"}
        /\ IStep(p))
         => \A id \in Tracked :
              (sold[id] > 0 /\ HasItem(TypeOfId(id), id))
                => /\ HasItem(TypeOfId(id), id)'
                   /\ Item(TypeOfId(id), id)'.purchased
                        >= Item(TypeOfId(id), id).purchased]_vars

\* The write of a credit leaves the fields of user u other than balance and
\* referralEarnings as they are stored.
CreditKeepsFields(u) ==
  /\ users'[u].status = users[u].status
  /\ users'[u].totalReferrals = users[u].totalReferrals
  /\ users'[u].referredBy = users[u].referredBy
  /\ \A v \in Users \ {u} : users'[v] = users[v]

\* C37: a balance credit (addToUserBalance, a referral-level bonus, a
\* milestone claim) changes only the balance and referralEarnings of the
\* credited user -- a field written by another operation between the read
\* and the write of the credit, such as status set to Suspended by
\* updateUserStatus, keeps its new value.
C37_CreditKeepsOtherFields ==
  [][\A p \in Procs :
       /\ (/\ pcall[p].pc \in {"completePlan_saveUser",
                                "processDailyPayout_saveUser"}
           /\ PStep(p))
            => CreditKeepsFields(Current(p).doc.userId)
       /\ (rpc[p] = "lvl_saveUser" /\ RStep(p))
            => CreditKeepsFields(rcur[p])
       /\ (mpc[p] = "claim_saveUser" /\ MStep(p))
            => CreditKeepsFields(muser[p])]_vars

\* What the payouts credited for product id add up to.
TotalCredited(id) ==
  dailyPaid[id] * purchased[id].dailyEarning
    + finalPaid[id].sweep * purchased[id].price
    + finalPaid[id].claim * purchased[id].totalEarning

\* C38: for a Special product, the daily payouts and the completion payout
\* credited to its owner never add up to more than price + dailyEarning x
\* cycleDays, whether the expiry sweep or claimReturns completes the product.
C38_SpecialTotalBounded ==
  \A id \in Products :
    purchased[id].planType = "Special"
      => TotalCredited(id)
           <= purchased[id].price
                + purchased[id].dailyEarning * purchased[id].totalDays

\* C39: the Referral_Bonus transaction written by processReferralBonus at
\* the registration of a user does not suppress the deposit bonus -- after
\* the registration bonus, the first processDepositReferralBonus call of the
\* user has paid every level whose bonus is positive, each with its own
\* Referral_Bonus transaction of round(19%), round(2%), round(1%) of the
\* deposit.
C39_RegistrationKeepsDepositBonus ==
  \A u \in Depositors :
    (regState[u] = "done" /\ ~overlap /\ doneCount[u] = 1)
      => \A d \in doneAmts[u] : \A k \in 1..3 :
           LevelBonus(k, d) > 0
             => \E t \in BonusTx(Ancestor(u, k), u) :
                  t.amount = LevelBonus(k, d)

\* A forceResetInventory call of caller p returns in this step.
ResetReturns(p) ==
  iop[p] = "reset" /\ ipc[p] # "idle" /\ ipc'[p] = "idle"

\* The document of a product type holds the seed: every product with
\* purchased = 0 and its configured total.
Reseeded(doc, type) ==
  /\ doc.exists
  /\ DOMAIN doc.data = DOMAIN SeedOf(type)
  /\ \A id \in DOMAIN SeedOf(type) :
       /\ doc.data[id].purchased = 0
       /\ doc.data[id].total = SeedOf(type)[id].total

\* C40: after forceResetInventory completes without error the inventory is
\* re-seeded -- when the call of a caller returns, with sales counted before
\* it and no other caller having called anything, every Special and Premium
\* product has purchased = 0 and its configured total.
C40_ForceResetReseeds ==
  [][\A p \in Procs :
       (/\ ResetReturns(p)
        /\ \E id \in Tracked : sold[id] > 0
        /\ \A q \in Procs \ {p} : iop[q] = "none")
         => \A type \in ProductTypes : Reseeded(inventory'[type], type)]_vars

====
